---- MODULE Spec2Model ----
(***************************************************************************)
(* Model of the resilient acquisition subsystem of the Garage Grown Gear   *)
(* scraper: the crawl manager (scraper/garage_grown_gear_scraper.py) and    *)
(* the retry handler (error_handling/retry_handler.py).                     *)
(*                                                                         *)
(* CrawlSpec follows one call of scrape_all_products, RetrySpec one call   *)
(* of RetryHandler.execute_with_retry.  Each specification leaves the      *)
(* variables of the other at their initial value.                          *)
(***************************************************************************)
EXTENDS Integers, Sequences, FiniteSets, TLC

(***************************************************************************)
(* Bounds of the model.                                                    *)
(***************************************************************************)

\* Page limit of the crawl loop.  The source hard-codes 50
\* (garage_grown_gear_scraper.py:940); the model scales it down so that the
\* limit is reached with a handful of URLs.
SafetyCeiling == 2

\* batch_size of the scraper's BatchProcessor (constructor argument, 50 by
\* default), scaled down so that pages with more items than one batch exist.
BatchSize == 2

\* Largest max_retries of a retry policy drawn in RetryInit.
MaxRetriesBound == 3

\* Largest number of _make_request calls followed in RequestSpec.
MaxRequests == 3

\* Largest number of items handed to process_in_batches in BatchSpec.
MaxItems == 5

\* Largest length of proxy_list in ProxySpec.
MaxProxies == 3

\* Largest number of _get_next_proxy / _get_working_proxy calls followed.
MaxProxyCalls == 4

\* Largest number of pagination link elements of a page.
MaxLinks == 4

\* Largest number of sampling threads a SystemMonitor creates, and of the
\* returned calls and appended samples that are followed.
MaxMonitorThreads == 2
MaxMonitorEvents == 6

\* The crawl calls optimize_performance whenever the number of collected
\* records is a multiple of this number (the source uses 200, line 919;
\* scaled down so that the call happens on small sites).
OptimizeEvery == 2

\* The jitter factor 0.5 + random.random() * 0.5 is drawn from the
\* JitterSteps + 1 values (JitterSteps + j) / (2 * JitterSteps), j in
\* 0..JitterSteps; durations are counted in units of 1 / (2 * JitterSteps)
\* second so that every jittered delay is a whole number.
JitterSteps == 1

(***************************************************************************)
(* URLs.  The two warm-up URLs of the gradual approach are literals of the *)
(* source; the others stand for collection pages of the site.              *)
(***************************************************************************)
Homepage == "home"
CollectionsUrl == "collections"

TargetUrls == {"A", "B", "C", "D", "E", "F", "G"}
Urls == {Homepage, CollectionsUrl} \cup TargetUrls

\* A pagination link element without href attribute.
NoHref == "nohref"

\* Value of a variable that holds no URL (Python None).
None == "none"

(***************************************************************************)
(* Item elements of a page.  kind says what extract_product_data does with *)
(* the element: "ok" yields a record with a name, "raises" makes a         *)
(* selector call inside the extractor raise, "noname" yields a record      *)
(* whose name is empty.                                                    *)
(***************************************************************************)
Elem(i, k) == [id |-> i, kind |-> k]

(***************************************************************************)
(* The sites the crawl is run against: for every URL the href attributes   *)
(* of its pagination link elements (in document order), its item elements, *)
(* and the URLs whose item / link selection raises.                        *)
(***************************************************************************)
FanItems ==
    [u \in Urls |->
        CASE u = "A" -> <<Elem(1, "ok"), Elem(2, "raises"), Elem(3, "ok")>>
          [] u = "B" -> <<Elem(4, "ok"), Elem(5, "noname")>>
          [] u = "C" -> <<Elem(6, "raises"), Elem(7, "ok"), Elem(8, "ok"), Elem(9, "ok")>>
          [] u = "D" -> <<Elem(10, "ok")>>
          [] OTHER -> <<>>]

\* The root links to two further pages, which link back to each other.
SiteFan ==
    [hrefs |-> [u \in Urls |->
                  CASE u \in {"A", "B"} -> <<"C", NoHref, "C", "D">>
                    [] u = "C" -> <<"C", "D">>
                    [] u = "D" -> <<"D", "C">>
                    [] OTHER -> <<>>],
     items |-> FanItems,
     items_raise |-> {},
     links_raise |-> {}]

\* The root links to more pages than the page limit allows.
SiteWide ==
    [hrefs |-> [u \in Urls |->
                  CASE u \in {"A", "B"} -> <<"C", "D", "E", "F", "G">>
                    [] OTHER -> <<>>],
     items |-> FanItems,
     items_raise |-> {},
     links_raise |-> {}]

\* Every page links to one new page.
SiteChain ==
    [hrefs |-> [u \in Urls |->
                  CASE u \in {"A", "B"} -> <<"C">>
                    [] u = "C" -> <<"D">>
                    [] u = "D" -> <<"E">>
                    [] u = "E" -> <<"F">>
                    [] u = "F" -> <<"G">>
                    [] OTHER -> <<>>],
     items |-> FanItems,
     items_raise |-> {},
     links_raise |-> {}]

\* As SiteFan, with a page whose item selection raises and a page whose
\* link selection raises.
SiteBroken ==
    [hrefs |-> SiteFan.hrefs,
     items |-> FanItems,
     items_raise |-> {"D"},
     links_raise |-> {"C"}]

Sites == {SiteFan, SiteWide, SiteChain, SiteBroken}

(***************************************************************************)
(* Configurations of the scraper: base_url and fallback_urls.              *)
(***************************************************************************)
Configs ==
    { [base_url |-> "A", fallback_urls |-> <<"B">>],
      [base_url |-> "B", fallback_urls |-> <<"A">>],
      [base_url |-> Homepage, fallback_urls |-> <<"A", "B">>] }

VARIABLES
    \* ---- scrape_all_products ----
    pc,                  \* position in _scrape_all_products_internal
    site,                \* the site behind the URLs
    base_url,            \* self.base_url
    fallback_urls,       \* self.fallback_urls
    session_established, \* self.session_established
    warmup,              \* answer to the homepage visit of _establish_session
    request_count,       \* self.request_count
    gradual_urls,        \* local gradual_urls
    i,                   \* index of the gradual approach loop
    primary_success,     \* local primary_success
    working_url,         \* local working_url
    urls_to_visit,       \* local urls_to_visit
    visited_urls,        \* local visited_urls
    all_products,        \* local all_products
    current_url,         \* local current_url
    fetch_count,         \* requests issued per URL (observation)
    probed,              \* URLs requested by the gradual approach, in order
    last_fetch,          \* outcome of the latest _make_request
    page_elements,       \* item elements of the page scraped last
    page_products,       \* records scrape_page returned last
    root_links,          \* pagination URLs enqueued from the crawl root
    deadline_expired,    \* the caller's wall-clock deadline has passed
    \* ---- RetryHandler.execute_with_retry ----
    rh_pc,               \* position in execute_with_retry
    policy,              \* fields of the RetryHandler
    attempt,             \* loop variable attempt
    calls,               \* number of invocations of func
    sleeps,              \* arguments of time.sleep, in order (time units)
    draws,               \* jitter draws of the delays slept, in order
    raised,              \* exceptions func raised, in order
    result,              \* what execute_with_retry returned or raised
    \* ---- _make_request ----
    mr_pc,               \* position in _make_request
    mr_config,           \* max_retries, retry_delay, GITHUB_ACTIONS
    mr_attempt,          \* loop variable attempt
    mr_referer,          \* enhanced_headers['Referer'] of the latest request
    mr_header_gens,      \* calls of _get_rotating_headers in this call
    mr_chain,            \* escalation approaches not tried yet
    mr_log,              \* sleeps, requests and transports of this call
    mr_result,           \* what _make_request returned
    in_flight,           \* requests to the target without an answer yet
    \* ---- _get_rotating_headers ----
    headers,             \* the header profile generated last
    \* ---- BatchProcessor.process_in_batches ----
    bp_pc,               \* position in process_in_batches
    bp_items,            \* argument items
    bp_start,            \* loop variable i
    bp_results,          \* local results
    bp_calls,            \* batches handed to processor_func, in order
    tracking_active,     \* memory_tracker._tracking_active
    \* ---- proxy rotation ----
    proxy_list,          \* self.proxy_list
    current_proxy_index, \* self.current_proxy_index
    px_calls,            \* calls of the two proxy methods so far
    px_run_start,        \* current_proxy_index before the latest run of
                         \* consecutive _get_next_proxy calls
    px_run,              \* what the calls of that run returned, in order
    wp_before,           \* current_proxy_index before the latest
                         \* _get_working_proxy call
    wp_alive,            \* which candidates are alive during that call
    wp_tested,           \* candidates that call handed to _test_proxy
    wp_result,           \* what that call returned
    esc_proxies,         \* proxy of each transport of the latest escalation
    \* ---- ProductDataProcessor.process_products ----
    pp_pc,               \* "start", then how process_products ended
    pp_raw,              \* argument raw_products
    pp_result,           \* the list process_products returned
    \* ---- two scrapers on the same responses ----
    mon_on,              \* crawl state of the scraper with a PerformanceMonitor
    mon_off,             \* crawl state of the scraper without one
    mon_book,            \* bookkeeping of the PerformanceMonitor
    \* ---- get_pagination_urls ----
    pg_pc,               \* position of the call
    pg_base,             \* self.base_url
    pg_links,            \* href attributes of the link elements selected
    pg_raises,           \* the link selection raises
    pg_result,           \* the list get_pagination_urls returned
    \* ---- SystemMonitor ----
    sm_main,             \* position of the thread that calls start / stop
    sm_monitoring,       \* self.monitoring
    sm_samples,          \* self.samples: the thread that appended each sample
    sm_threads,          \* position of every sampling thread
    sm_thread,           \* self._monitor_thread
    sm_events            \* calls returned and samples appended, in order

crawl_vars == <<pc, site, base_url, fallback_urls, session_established, warmup,
                request_count, gradual_urls, i, primary_success, working_url,
                urls_to_visit, visited_urls, all_products, current_url,
                fetch_count, probed, last_fetch, page_elements, page_products,
                root_links, deadline_expired>>

retry_vars == <<rh_pc, policy, attempt, calls, sleeps, draws, raised, result>>

request_vars == <<mr_pc, mr_config, mr_attempt, mr_referer, mr_header_gens,
                  mr_chain, mr_log, mr_result, in_flight>>

header_vars == <<headers>>

batch_vars == <<bp_pc, bp_items, bp_start, bp_results, bp_calls, tracking_active>>

proxy_vars == <<proxy_list, current_proxy_index, px_calls, px_run_start, px_run,
                wp_before, wp_alive, wp_tested, wp_result, esc_proxies>>

\* The variables of the components that are followed on their own.
processor_vars == <<pp_pc, pp_raw, pp_result>>

monitor_vars == <<mon_on, mon_off, mon_book>>

pagination_vars == <<pg_pc, pg_base, pg_links, pg_raises, pg_result>>

sysmon_vars == <<sm_main, sm_monitoring, sm_samples, sm_threads, sm_thread,
                 sm_events>>

component_vars == <<proxy_vars, processor_vars, monitor_vars, pagination_vars,
                    sysmon_vars>>

\* The crawl variables _make_request does not touch.
crawl_rest_vars == <<pc, site, base_url, fallback_urls, gradual_urls, i,
                     primary_success, working_url, urls_to_visit, visited_urls,
                     all_products, current_url, fetch_count, probed,
                     last_fetch, page_elements, page_products, root_links,
                     deadline_expired>>

non_crawl_vars == <<retry_vars, request_vars, header_vars, batch_vars,
                    component_vars>>

non_retry_vars == <<crawl_vars, request_vars, header_vars, batch_vars,
                    component_vars>>

vars == <<crawl_vars, retry_vars, request_vars, header_vars, batch_vars,
          component_vars>>

(***************************************************************************)
(* Helpers on sequences.                                                   *)
(***************************************************************************)
Range(s) == { s[k] : k \in 1..Len(s) }

\* Python slice s[from:to] with 0-based from and exclusive to.
Slice(s, from, to) ==
    IF from >= Len(s) THEN <<>>
    ELSE SubSeq(s, from + 1, IF to > Len(s) THEN Len(s) ELSE to)

(***************************************************************************)
(* extract_product_data: the record of an item element, or the empty dict  *)
(* when anything inside the extractor raises (the whole body is in a try). *)
(***************************************************************************)
EmptyDict == [id |-> 0, has_name |-> FALSE]

ExtractProductData(e) ==
    IF e.kind = "raises" THEN EmptyDict
    ELSE [id |-> e.id, has_name |-> (e.kind = "ok")]

(***************************************************************************)
(* _extract_products_batch: the records of the elements, in order, without *)
(* the empty ones and the ones without a name.                             *)
(***************************************************************************)
RECURSIVE ExtractLoop(_, _)
ExtractLoop(product_elements, products) ==
    IF product_elements = <<>> THEN products
    ELSE LET product_data == ExtractProductData(Head(product_elements))
         IN  ExtractLoop(Tail(product_elements),
                         IF product_data # EmptyDict /\ product_data.has_name
                         THEN Append(products, product_data)
                         ELSE products)

\* Variant: the extractor's exception ends the batch at the failing element.
RECURSIVE FirstRaising(_, _)
FirstRaising(product_elements, k) ==
    IF k > Len(product_elements) THEN k
    ELSE IF product_elements[k].kind = "raises" THEN k
         ELSE FirstRaising(product_elements, k + 1)

ExtractProductsBatch_StopAtError(product_elements) ==
    ExtractLoop(SubSeq(product_elements, 1, FirstRaising(product_elements, 1) - 1), <<>>)

ExtractProductsBatch(product_elements) == ExtractLoop(product_elements, <<>>)

(***************************************************************************)
(* BatchProcessor.process_in_batches with processor_func =                 *)
(* _extract_products_batch: for i in range(0, len(items), batch_size).     *)
(***************************************************************************)
\* Variant: a batch reaches one element into the next one.
BatchOf_Overlap(items, start) == Slice(items, start, start + BatchSize + 1)

\* monitoring.py line 396: batch = items[i:i + self.batch_size].
BatchOf(items, start) == Slice(items, start, start + BatchSize)

RECURSIVE BatchLoop(_, _, _)
BatchLoop(items, start, results) ==
    IF start >= Len(items) THEN results
    ELSE LET batch == BatchOf(items, start)
         IN  BatchLoop(items, start + BatchSize,
                       results \o ExtractProductsBatch(batch))

ProcessInBatches(items) == BatchLoop(items, 0, <<>>)

(***************************************************************************)
(* _scrape_page_internal after the fetch: no page gives no records.        *)
(***************************************************************************)
\* Variant: the records of a page are returned last element first.
ScrapePageInternal_Reversed(fetched, product_elements) ==
    IF ~fetched THEN <<>>
    ELSE LET records == ExtractProductsBatch(product_elements)
         IN  [k \in 1..Len(records) |-> records[Len(records) + 1 - k]]

ScrapePageInternal(fetched, product_elements) ==
    IF ~fetched THEN <<>>
    ELSE IF Len(product_elements) > BatchSize
         THEN ProcessInBatches(product_elements)
         ELSE ExtractProductsBatch(product_elements)

(***************************************************************************)
(* get_pagination_urls: the hrefs of the link elements, in order of first  *)
(* occurrence, without the elements that have no href; the empty list when *)
(* the link selection raises.                                              *)
(***************************************************************************)
\* An href attribute that is the empty string, and the hrefs that are
\* relative references (a query only).
EmptyHref == ""
RelativeHrefs == {"?page=2", "?page=3"}

\* Variant: the href is taken as it is.
UrlJoin_Identity(base, href) == href

\* urljoin(self.base_url, href), line 824: an absolute URL is kept, a query
\* replaces the query of the base.  C and D name the second and third page
\* of A, E and F those of B.
UrlJoin(base, href) ==
    CASE href = "?page=2" /\ base = "A" -> "C"
      [] href = "?page=3" /\ base = "A" -> "D"
      [] href = "?page=2" /\ base = "B" -> "E"
      [] href = "?page=3" /\ base = "B" -> "F"
      [] href \in RelativeHrefs -> "G"
      [] OTHER -> href

RECURSIVE PaginationLoop(_, _, _)
PaginationLoop(base, link_elements, pagination_urls) ==
    IF link_elements = <<>> THEN pagination_urls
    ELSE LET href == Head(link_elements)
             full_url == UrlJoin(base, href)
         IN  PaginationLoop(base, Tail(link_elements),
                            IF href \notin {NoHref, EmptyHref}
                               /\ full_url \notin Range(pagination_urls)
                            THEN Append(pagination_urls, full_url)
                            ELSE pagination_urls)

\* Lines 815-833 for a page with the given link elements; an exception of
\* the selection is caught and the list, still empty, is returned.
PaginationUrlsOf(base, link_elements, selection_raises) ==
    IF selection_raises THEN <<>>
    ELSE PaginationLoop(base, link_elements, <<>>)

GetPaginationUrls(u) ==
    PaginationUrlsOf(base_url, site.hrefs[u], u \in site.links_raise)

(***************************************************************************)
(* The loop that adds new URLs to the visit list (lines 929-931).          *)
(***************************************************************************)
\* Variant: every pagination URL is appended.
Enqueue_Unchecked(queue, pagination_urls, visited) == queue \o pagination_urls

RECURSIVE Enqueue(_, _, _)
Enqueue(queue, pagination_urls, visited) ==
    IF pagination_urls = <<>> THEN queue
    ELSE LET url == Head(pagination_urls)
         IN  Enqueue(IF url \notin visited /\ url \notin Range(queue)
                     THEN Append(queue, url) ELSE queue,
                     Tail(pagination_urls), visited)

(***************************************************************************)
(* The safety check at the end of an iteration (line 940).                 *)
(***************************************************************************)
\* Variant: there is no page limit.
LimitReached_Never(visited) == FALSE

LimitReached(visited) == Cardinality(visited) > SafetyCeiling

(***************************************************************************)
(* One call of _make_request(url) seen from the crawl: it counts the       *)
(* logical request, issues at least one request for url and returns a page *)
(* (fetched) or None.  It never raises.                                    *)
(***************************************************************************)
MakeRequest(url, fetched) ==
    /\ request_count' = request_count + 1
    /\ fetch_count' = [fetch_count EXCEPT ![url] = @ + 1]
    /\ last_fetch' = IF fetched THEN "ok" ELSE "fail"

(***************************************************************************)
(* State at the call of scrape_all_products.                               *)
(***************************************************************************)
RetryIdle ==
    /\ rh_pc = "idle"
    /\ policy = [max_retries |-> 0, base_delay |-> 0, max_delay |-> 0,
                 exponential_base |-> 1, jitter |-> FALSE]
    /\ attempt = 0
    /\ calls = 0
    /\ sleeps = <<>>
    /\ draws = <<>>
    /\ raised = <<>>
    /\ result = [outcome |-> None]

\* State of a scraper that is not inside _make_request.
RequestIdle ==
    /\ mr_pc = "idle"
    /\ mr_config = [max_retries |-> 1, retry_delay |-> 1, github_actions |-> FALSE]
    /\ mr_attempt = 0
    /\ mr_referer = None
    /\ mr_header_gens = 0
    /\ mr_chain = <<>>
    /\ mr_log = <<>>
    /\ mr_result = None
    /\ in_flight = 0

\* No header profile generated yet.
HeaderIdle == headers = [generated |-> FALSE]

\* State of a BatchProcessor outside process_in_batches.
BatchIdle ==
    /\ bp_pc = "idle"
    /\ bp_items = <<>>
    /\ bp_start = 0
    /\ bp_results = <<>>
    /\ bp_calls = <<>>
    /\ tracking_active = FALSE

\* A scraper without proxies (proxy_list=None), lines 69-70.
ProxyIdle ==
    /\ proxy_list = <<>>
    /\ current_proxy_index = 0
    /\ px_calls = 0
    /\ px_run_start = 0
    /\ px_run = <<>>
    /\ wp_before = 0
    /\ wp_alive = <<>>
    /\ wp_tested = <<>>
    /\ wp_result = "no_call"
    /\ esc_proxies = <<>>

\* No call of process_products.
ProcessorIdle ==
    /\ pp_pc = "idle"
    /\ pp_raw = <<>>
    /\ pp_result = <<>>

\* No pair of scrapers under comparison.
IdleScraper ==
    [pc |-> "idle", urls_to_visit |-> <<>>, visited_urls |-> {},
     all_products |-> <<>>, requests |-> <<>>, current_url |-> None]

IdleBook ==
    [request_times |-> 0, started |-> 0, operations |-> 0, optimizations |-> 0]

MonitorIdle ==
    /\ mon_on = IdleScraper
    /\ mon_off = IdleScraper
    /\ mon_book = IdleBook

\* No call of get_pagination_urls on its own.
PaginationIdle ==
    /\ pg_pc = "idle"
    /\ pg_base = None
    /\ pg_links = <<>>
    /\ pg_raises = FALSE
    /\ pg_result = <<>>

\* SystemMonitor.__init__ (monitoring.py lines 86-90), and no call made.
SysmonIdle ==
    /\ sm_main = "idle"
    /\ sm_monitoring = FALSE
    /\ sm_samples = <<>>
    /\ sm_threads = <<>>
    /\ sm_thread = 0
    /\ sm_events = <<>>

ComponentsIdle ==
    /\ ProxyIdle
    /\ ProcessorIdle
    /\ MonitorIdle
    /\ PaginationIdle
    /\ SysmonIdle

CrawlInit ==
    /\ ComponentsIdle
    /\ pc = "establish_session"
    /\ site \in Sites
    /\ \E c \in Configs :
          /\ base_url = c.base_url
          /\ fallback_urls = c.fallback_urls
          /\ urls_to_visit = <<c.base_url>>
    /\ session_established = FALSE
    /\ warmup = None
    /\ request_count = 0
    /\ gradual_urls = <<>>
    /\ i = 1
    /\ primary_success = FALSE
    /\ working_url = None
    /\ visited_urls = {}
    /\ all_products = <<>>
    /\ current_url = None
    /\ fetch_count = [u \in Urls |-> 0]
    /\ probed = <<>>
    /\ last_fetch = None
    /\ page_elements = <<>>
    /\ page_products = <<>>
    /\ root_links = {}
    /\ deadline_expired = FALSE
    /\ RetryIdle
    /\ RequestIdle
    /\ HeaderIdle
    /\ BatchIdle

(***************************************************************************)
(* Lines 856-868: _establish_session visits the homepage with the fetcher  *)
(* itself (a status other than 200 and an exception both give False and    *)
(* the run proceeds), then the gradual approach list is built.             *)
(***************************************************************************)
WarmupOutcomes == {"200", "403", "exception"}

\* Variant: any answer of the homepage establishes the session.
SessionEstablished_AnyAnswer(status) == status # "exception"

\* Lines 452-465: True for status 200, False for any other status and for
\* an exception.
SessionEstablished(status) == status = "200"

EstablishSession ==
    /\ pc = "establish_session"
    /\ \E status \in WarmupOutcomes :
          /\ warmup' = status
          /\ session_established' = SessionEstablished(status)
    /\ fetch_count' = [fetch_count EXCEPT ![Homepage] = @ + 1]
    /\ gradual_urls' = <<Homepage, CollectionsUrl, base_url>> \o fallback_urls
    /\ pc' = "probe"
    /\ UNCHANGED <<site, base_url, fallback_urls, request_count, i,
                   primary_success, working_url, urls_to_visit, visited_urls,
                   all_products, current_url, probed, last_fetch,
                   page_elements, page_products, root_links>>
    /\ UNCHANGED deadline_expired
    /\ UNCHANGED non_crawl_vars

(***************************************************************************)
(* Lines 870-899: one iteration of the gradual approach loop.  i is the    *)
(* 1-based position in gradual_urls.                                       *)
(***************************************************************************)
IsTargetUrl(url) == url \in Range(<<base_url>> \o fallback_urls)

\* Variant: any page that answers ends the gradual approach.
ProbeBreaks_AnyPage(fetched, attempt_url) == fetched

\* Lines 882-890: a fetched target URL becomes the crawl root and ends the loop.
ProbeBreaks(fetched, attempt_url) == fetched /\ IsTargetUrl(attempt_url)

ProbeStep ==
    /\ pc = "probe"
    /\ i <= Len(gradual_urls)
    /\ LET attempt_url == gradual_urls[i] IN
       \E fetched \in BOOLEAN :
          /\ MakeRequest(attempt_url, fetched)
          /\ probed' = Append(probed, [url |-> attempt_url, fetched |-> fetched])
          /\ IF ProbeBreaks(fetched, attempt_url)
             THEN /\ base_url' = attempt_url
                  /\ urls_to_visit' = <<attempt_url>>
                  /\ primary_success' = TRUE
                  /\ working_url' = attempt_url
                  /\ pc' = "after_probe"
                  /\ i' = i
             ELSE /\ working_url' = IF fetched THEN attempt_url ELSE working_url
                  /\ i' = i + 1
                  /\ pc' = IF i + 1 > Len(gradual_urls) THEN "after_probe" ELSE "probe"
                  /\ UNCHANGED <<base_url, urls_to_visit, primary_success>>
    /\ UNCHANGED <<site, fallback_urls, session_established, warmup,
                   gradual_urls,
                   visited_urls, all_products, current_url, page_elements,
                   page_products, root_links>>
    /\ UNCHANGED deadline_expired
    /\ UNCHANGED non_crawl_vars

(***************************************************************************)
(* Lines 901-903: without a working target URL the (empty) list is         *)
(* returned.                                                               *)
(***************************************************************************)
\* Variant: the early return is missing.
ReturnsEarly_Never(success) == FALSE

ReturnsEarly(success) == ~success

CheckPrimarySuccess ==
    /\ pc = "after_probe"
    /\ pc' = IF ReturnsEarly(primary_success) THEN "done" ELSE "loop"
    /\ UNCHANGED <<site, base_url, fallback_urls, session_established, warmup,
                   request_count, gradual_urls, i, primary_success,
                   working_url, urls_to_visit, visited_urls, all_products,
                   current_url, fetch_count, probed, last_fetch,
                   page_elements, page_products, root_links>>
    /\ UNCHANGED deadline_expired
    /\ UNCHANGED non_crawl_vars

(***************************************************************************)
(* Lines 905-912: the loop test, the pop and the visited check.            *)
(***************************************************************************)
LoopHead ==
    /\ pc = "loop"
    /\ IF urls_to_visit = <<>>
       THEN /\ pc' = "done"
            /\ UNCHANGED <<urls_to_visit, visited_urls, current_url>>
       ELSE /\ current_url' = Head(urls_to_visit)
            /\ urls_to_visit' = Tail(urls_to_visit)
            /\ IF Head(urls_to_visit) \in visited_urls
               THEN /\ pc' = "loop"
                    /\ UNCHANGED visited_urls
               ELSE /\ visited_urls' = visited_urls \cup {Head(urls_to_visit)}
                    /\ pc' = "scrape"
    /\ UNCHANGED <<site, base_url, fallback_urls, session_established, warmup,
                   request_count, gradual_urls, i, primary_success,
                   working_url, all_products, fetch_count, probed, last_fetch,
                   page_elements, page_products, root_links>>
    /\ UNCHANGED deadline_expired
    /\ UNCHANGED non_crawl_vars

(***************************************************************************)
(* Lines 915-916 with scrape_page / _scrape_page_internal: the page is     *)
(* requested, its item elements are selected (an exception of the          *)
(* selection is not caught anywhere and leaves scrape_all_products) and    *)
(* the records are appended.                                               *)
(* The periodic optimize_performance call of lines 918-921 touches only    *)
(* the monitor's own bookkeeping and is not part of the crawl state.       *)
(***************************************************************************)
\* Variant: the page is used without the test for None.
SelectionRaises_NoneUnchecked(fetched, page_url) ==
    ~fetched \/ page_url \in site.items_raise

\* Lines 780-784: page.css is reached only with a page, and may raise.
SelectionRaises(fetched, page_url) ==
    fetched /\ page_url \in site.items_raise

ScrapePage ==
    /\ pc = "scrape"
    /\ \E fetched \in BOOLEAN :
          /\ MakeRequest(current_url, fetched)
          /\ IF SelectionRaises(fetched, current_url)
             THEN /\ pc' = "raised"
                  /\ UNCHANGED <<all_products, page_elements, page_products>>
             ELSE /\ page_elements' = IF fetched THEN site.items[current_url] ELSE <<>>
                  /\ page_products' = ScrapePageInternal(fetched, site.items[current_url])
                  /\ all_products' = all_products \o page_products'
                  /\ pc' = "paginate"
    /\ UNCHANGED <<site, base_url, fallback_urls, session_established, warmup,
                   gradual_urls, i, primary_success, working_url,
                   urls_to_visit, visited_urls, current_url, probed,
                   root_links>>
    /\ UNCHANGED deadline_expired
    /\ UNCHANGED non_crawl_vars

(***************************************************************************)
(* Lines 923-931: the page is requested again for its pagination links and *)
(* the new URLs are added to the visit list.                               *)
(***************************************************************************)
Paginate ==
    /\ pc = "paginate"
    /\ \E fetched \in BOOLEAN :
          /\ MakeRequest(current_url, fetched)
          /\ LET pagination_urls == IF fetched THEN GetPaginationUrls(current_url)
                                    ELSE <<>>
             IN  /\ urls_to_visit' = Enqueue(urls_to_visit, pagination_urls, visited_urls)
                 /\ root_links' = IF current_url = base_url
                                  THEN Range(pagination_urls) ELSE root_links
    /\ pc' = "check"
    /\ UNCHANGED <<site, base_url, fallback_urls, session_established, warmup,
                   gradual_urls, i, primary_success, working_url,
                   visited_urls, all_products, current_url, probed,
                   page_elements, page_products>>
    /\ UNCHANGED deadline_expired
    /\ UNCHANGED non_crawl_vars

(***************************************************************************)
(* Lines 933-942: the delay between pages and the page limit.              *)
(***************************************************************************)
SafetyCheck ==
    /\ pc = "check"
    /\ pc' = IF LimitReached(visited_urls) THEN "done" ELSE "loop"
    /\ UNCHANGED <<site, base_url, fallback_urls, session_established, warmup,
                   request_count, gradual_urls, i, primary_success,
                   working_url, urls_to_visit, visited_urls, all_products,
                   current_url, fetch_count, probed, last_fetch,
                   page_elements, page_products, root_links>>
    /\ UNCHANGED deadline_expired
    /\ UNCHANGED non_crawl_vars

(***************************************************************************)
(* The wall-clock deadline of the caller passes while scrape_all_products  *)
(* runs.  scrape_all_products takes no deadline (line 835) and no          *)
(* statement of the run reads a clock for one.                             *)
(***************************************************************************)
RunningPcs == {"establish_session", "probe", "after_probe", "loop", "scrape",
               "paginate", "check"}

DeadlineExpires ==
    /\ pc \in RunningPcs
    /\ ~deadline_expired
    /\ deadline_expired' = TRUE
    /\ UNCHANGED <<session_established, warmup, request_count>>
    /\ UNCHANGED <<pc, site, base_url, fallback_urls, gradual_urls, i,
                   primary_success, working_url, urls_to_visit, visited_urls,
                   all_products, current_url, fetch_count, probed, last_fetch,
                   page_elements, page_products, root_links>>
    /\ UNCHANGED non_crawl_vars

CrawlNext ==
    \/ DeadlineExpires
    \/ EstablishSession
    \/ ProbeStep
    \/ CheckPrimarySuccess
    \/ LoopHead
    \/ ScrapePage
    \/ Paginate
    \/ SafetyCheck

CrawlSpec == CrawlInit /\ [][CrawlNext]_vars

\* scrape_all_products runs in one thread that is not suspended for ever:
\* while a step of the run is possible, one is taken.
CrawlFairSpec == CrawlSpec /\ WF_vars(CrawlNext)

(***************************************************************************)
(* Properties of the crawl (checked under CrawlSpec).                      *)
(***************************************************************************)
LoopPcs == {"loop", "scrape", "paginate", "check"}

\* The entry-URL candidates in the order the gradual approach tries them.
Candidates == SubSeq(gradual_urls, 3, Len(gradual_urls))

ProbingOver == pc \notin {"establish_session", "probe"}

NoCandidateFetched ==
    \A k \in 1..Len(probed) :
        ~(probed[k].fetched /\ probed[k].url \in Range(Candidates))

\* C1: the number of pages visited by the crawl loop in one run never
\* exceeds the safety ceiling (with ceiling N and a root that links to more
\* than N-1 new URLs exactly N pages are visited).
C1_PagesWithinCeiling == Cardinality(visited_urls) <= SafetyCeiling

\* C2: within one run no visited URL is requested more than once (a page
\* fetched by probing is reused by the crawl loop, and a page is fetched a
\* single time for its records and its pagination links).
C2_NoUrlRequestedTwice == \A u \in visited_urls : fetch_count[u] <= 1

\* C3: if every entry-URL candidate fails during probing, the run returns
\* the empty record list, never enters the crawl loop and does not raise.
C3_AllCandidatesFailEmptyResult ==
    (ProbingOver /\ NoCandidateFetched)
        => /\ pc \in {"after_probe", "done"}
           /\ all_products = <<>>
           /\ visited_urls = {}
           /\ \A u \in TargetUrls \ Range(Candidates) : fetch_count[u] = 0

C3_Witness ==
    /\ pc = "done"
    /\ NoCandidateFetched
    /\ Len(probed) = Len(gradual_urls)
    /\ \E k \in 1..Len(probed) : probed[k].fetched
    /\ all_products = <<>>

\* C4: probing requests the gradual list in order and stops at the first
\* entry-URL candidate that is fetched; that candidate is the crawl root and
\* the only initial queue entry, no later candidate is probed, the loop is
\* entered only with a root, and a finished crawl has visited every
\* pagination URL found on the root unless the page limit cut it short.
C4_ProbeOrderAndRoot ==
    /\ Len(probed) <= Len(gradual_urls)
    /\ \A k \in 1..Len(probed) : probed[k].url = gradual_urls[k]
    /\ \A k \in 1..(Len(probed) - 1) :
          ~(probed[k].fetched /\ probed[k].url \in Range(Candidates))
    /\ primary_success =>
          LET w == probed[Len(probed)]
          IN  /\ w.fetched
              /\ w.url \in Range(Candidates)
              /\ base_url = w.url
              /\ pc = "after_probe" => urls_to_visit = <<w.url>>
    /\ pc \in LoopPcs \cup {"raised"} => primary_success
    /\ (pc = "done" /\ primary_success
          /\ (~LimitReached(visited_urls)
                \/ Cardinality(root_links \cup {base_url}) <= SafetyCeiling + 1))
        => root_links \subseteq visited_urls

\* Entry URLs [A, B]: A fails, B is fetched and links to C and D.
C4_Witness ==
    /\ pc = "done"
    /\ Candidates = <<"A", "B">>
    /\ probed[Len(probed)] = [url |-> "B", fetched |-> TRUE]
    /\ probed[Len(probed) - 1] = [url |-> "A", fetched |-> FALSE]
    /\ base_url = "B"
    /\ root_links = {"C", "D"}
    /\ {"C", "D"} \subseteq visited_urls

\* C5: a failed fetch of scrape_page adds no record and does not end the
\* crawl: the run goes on to the pagination step of the same iteration with
\* the records and the queue it had, and a crawl that returned below the
\* page limit has emptied its queue.
C5_FetchFailureIsSkip ==
    /\ [][(pc = "scrape" /\ pc' # "scrape" /\ last_fetch' = "fail")
            => /\ pc' = "paginate"
               /\ page_products' = <<>>
               /\ all_products' = all_products
               /\ urls_to_visit' = urls_to_visit]_vars
    /\ [](pc = "done" /\ primary_success /\ ~LimitReached(visited_urls)
            => urls_to_visit = <<>>)

\* A page failed, a page after it was scraped, and its records are returned.
C5_Witness ==
    /\ pc = "done"
    /\ site = SiteFan
    /\ base_url = "A"
    /\ visited_urls = {"A", "C", "D"}
    /\ all_products = <<[id |-> 1, has_name |-> TRUE], [id |-> 3, has_name |-> TRUE],
                        [id |-> 10, has_name |-> TRUE]>>

\* C6: an item element whose extraction raises yields no record and leaves
\* the records of the other elements of the page as they are: the records of
\* a page are those of its elements that extract to a named record, in the
\* order of the elements.
NamedElements(elements) == SelectSeq(elements, LAMBDA e : e.kind = "ok")

C6_ExtractorFailureIsolated ==
    /\ Len(page_products) = Len(NamedElements(page_elements))
    /\ \A k \in 1..Len(page_products) :
          page_products[k] = [id |-> NamedElements(page_elements)[k].id,
                              has_name |-> TRUE]

\* A page with a raising element in front of three good ones, scraped in
\* more than one batch.
C6_Witness ==
    /\ pc = "paginate"
    /\ Len(page_elements) > BatchSize
    /\ page_elements[1].kind = "raises"
    /\ Len(page_products) = 3

(***************************************************************************)
(* RetryHandler (error_handling/retry_handler.py).                         *)
(***************************************************************************)

\* Number of time units in a second.
Unit == 2 * JitterSteps

Min(a, b) == IF a <= b THEN a ELSE b
Max(a, b) == IF a >= b THEN a ELSE b

RECURSIVE Pow(_, _)
Pow(b, n) == IF n = 0 THEN 1 ELSE b * Pow(b, n - 1)

\* The retry policies a handler is constructed with (seconds).
Policies ==
    [max_retries : 0..MaxRetriesBound,
     base_delay : {1, 2},
     max_delay : {3, 10},
     exponential_base : {1, 2},
     jitter : BOOLEAN]

\* The classes of error_handling/exceptions.py and of the builtins that
\* should_retry names, with their base classes ("ParsingError" stands for
\* an exception outside both retry hierarchies).
Bases(kind) ==
    CASE kind = "RateLimitError" -> {"RateLimitError", "NetworkError", "ScraperError"}
      [] kind = "NetworkError" -> {"NetworkError", "ScraperError"}
      [] kind = "QuotaExceededError" -> {"QuotaExceededError", "SheetsAPIError", "ScraperError"}
      [] kind = "RetryableError" -> {"RetryableError", "ScraperError"}
      [] kind = "NonRetryableError" -> {"NonRetryableError", "ScraperError"}
      [] kind = "TimeoutError" -> {"TimeoutError", "OSError"}
      [] kind = "ParsingError" -> {"ParsingError", "ScraperError"}
      [] kind = "Exception" -> {"Exception"}

IsInstance(e, class) == class \in Bases(e.kind)

\* Server-provided wait hints of a RateLimitError (seconds; 0 is no hint).
RetryAfterHints == {0, 2, 12}

\* The exceptions func raises.
Exceptions ==
    [kind : {"NetworkError", "RetryableError", "NonRetryableError",
             "TimeoutError", "ParsingError", "Exception"},
     retry_after : {0}]
    \cup [kind : {"RateLimitError"}, retry_after : RetryAfterHints]

\* Variant: the cap at max_delay is missing.
CalculateDelay_NoCap(p, a, j) ==
    LET delay == p.base_delay * Pow(p.exponential_base, a)
    IN  IF p.jitter THEN delay * (JitterSteps + j) ELSE delay * Unit

\* calculate_delay (lines 36-45), in time units; j is the jitter draw.
CalculateDelay(p, a, j) ==
    LET delay == Min(p.base_delay * Pow(p.exponential_base, a), p.max_delay)
    IN  IF p.jitter THEN delay * (JitterSteps + j) ELSE delay * Unit

\* Variant: every exception is retried while attempts are left.
ShouldRetry_RetryAll(p, e, a) == a < p.max_retries

\* should_retry (lines 47-70).
ShouldRetry(p, e, a) ==
    IF a >= p.max_retries THEN FALSE
    ELSE IF IsInstance(e, "NonRetryableError") THEN FALSE
    ELSE IF IsInstance(e, "RetryableError") THEN TRUE
    ELSE \E class \in {"NetworkError", "RateLimitError", "SheetsAPIError",
                       "QuotaExceededError", "ConnectionError", "TimeoutError"} :
            IsInstance(e, class)

\* Variant: the wait hint of a rate-limit error is not looked at.
RetryDelay_NoHint(p, e, a, j) == CalculateDelay(p, a, j)

\* Lines 95-99: the delay slept after a failure that is retried.
RetryDelay(p, e, a, j) ==
    IF IsInstance(e, "RateLimitError") /\ e.retry_after # 0
    THEN Max(CalculateDelay(p, a, j), e.retry_after * Unit)
    ELSE CalculateDelay(p, a, j)

JitterDraws(p) == IF p.jitter THEN 0..JitterSteps ELSE {0}

\* State of the scraper while only the retry handler runs.
CrawlIdle ==
    /\ pc = "idle"
    /\ site = SiteFan
    /\ base_url = "A"
    /\ fallback_urls = <<"B">>
    /\ urls_to_visit = <<>>
    /\ session_established = FALSE
    /\ warmup = None
    /\ request_count = 0
    /\ gradual_urls = <<>>
    /\ i = 1
    /\ primary_success = FALSE
    /\ working_url = None
    /\ visited_urls = {}
    /\ all_products = <<>>
    /\ current_url = None
    /\ fetch_count = [u \in Urls |-> 0]
    /\ probed = <<>>
    /\ last_fetch = None
    /\ page_elements = <<>>
    /\ page_products = <<>>
    /\ root_links = {}
    /\ deadline_expired = FALSE

\* State at the call of execute_with_retry.
RetryInit ==
    /\ ComponentsIdle
    /\ rh_pc = "call"
    /\ policy \in Policies
    /\ attempt = 0
    /\ calls = 0
    /\ sleeps = <<>>
    /\ draws = <<>>
    /\ raised = <<>>
    /\ result = [outcome |-> None]
    /\ CrawlIdle
    /\ RequestIdle
    /\ HeaderIdle
    /\ BatchIdle

\* Line 83: func returns and its value is returned.
InvokeReturns ==
    /\ rh_pc = "call"
    /\ calls' = calls + 1
    /\ result' = [outcome |-> "returned"]
    /\ rh_pc' = "done"
    /\ UNCHANGED <<policy, attempt, sleeps, draws, raised>>
    /\ UNCHANGED non_retry_vars

\* Lines 83-105: func raises e; the exception is raised again when it is not
\* to be retried, otherwise the handler sleeps (when attempt < max_retries)
\* and goes to the next attempt.  Lines 107-109 are reached when the range
\* is used up.
InvokeRaises ==
    /\ rh_pc = "call"
    /\ \E e \in Exceptions :
          /\ calls' = calls + 1
          /\ raised' = Append(raised, e)
          /\ IF ~ShouldRetry(policy, e, attempt)
             THEN /\ result' = [outcome |-> "raised", exc |-> e]
                  /\ rh_pc' = "done"
                  /\ UNCHANGED <<attempt, sleeps, draws>>
             ELSE /\ IF attempt < policy.max_retries
                     THEN \E j \in JitterDraws(policy) :
                             /\ sleeps' = Append(sleeps, RetryDelay(policy, e, attempt, j))
                             /\ draws' = Append(draws, j)
                     ELSE UNCHANGED <<sleeps, draws>>
                  /\ attempt' = attempt + 1
                  /\ IF attempt + 1 > policy.max_retries
                     THEN /\ result' = [outcome |-> "raised", exc |-> e]
                          /\ rh_pc' = "done"
                     ELSE /\ rh_pc' = "call"
                          /\ UNCHANGED result
    /\ UNCHANGED policy
    /\ UNCHANGED non_retry_vars

RetryNext ==
    \/ InvokeReturns
    \/ InvokeRaises

RetrySpec == RetryInit /\ [][RetryNext]_vars

(***************************************************************************)
(* Properties of the retry handler (checked under RetrySpec).              *)
(***************************************************************************)

\* min(base_delay * exponential_base^a, max_delay) in seconds.
CappedBackoff(p, a) ==
    LET raw == p.base_delay * (p.exponential_base ^ a)
    IN  IF raw <= p.max_delay THEN raw ELSE p.max_delay

\* C7: the backoff delay for attempt a is min(base * multiplier^a, max),
\* times a factor in [0.5, 1.0] when jitter is on; without jitter it does
\* not decrease with a, and it never exceeds max_delay.  It is the delay
\* slept after every retried failure that carries no wait hint.
C7_BackoffDelayBounded ==
    /\ \A a \in 0..(MaxRetriesBound + 1) : \A j \in JitterDraws(policy) :
          LET d == CalculateDelay(policy, a, j)
          IN  /\ IF policy.jitter
                 THEN /\ 2 * d >= CappedBackoff(policy, a) * Unit
                      /\ d <= CappedBackoff(policy, a) * Unit
                 ELSE /\ d = CappedBackoff(policy, a) * Unit
                      /\ CalculateDelay(policy, a + 1, j) >= d
              /\ d <= policy.max_delay * Unit
    /\ \A k \in 1..Len(sleeps) :
          raised[k].retry_after = 0
            => /\ sleeps[k] <= policy.max_delay * Unit
               /\ 2 * sleeps[k] >= CappedBackoff(policy, k - 1) * Unit
               /\ ~policy.jitter => sleeps[k] = CappedBackoff(policy, k - 1) * Unit

\* Three sleeps without jitter, the third one cut down to max_delay.
C7_Witness ==
    /\ ~policy.jitter
    /\ Len(sleeps) = 3
    /\ \A k \in 1..3 : raised[k].retry_after = 0
    /\ sleeps[1] < sleeps[2]
    /\ sleeps[3] = policy.max_delay * Unit
    /\ policy.base_delay * (policy.exponential_base ^ 2) > policy.max_delay

\* C8: after a rate-limit error with wait hint h the handler sleeps the
\* larger of the computed backoff delay and h, hence at least h.
C8_RateLimitHintIsFloor ==
    \A k \in 1..Len(sleeps) :
        (raised[k].kind = "RateLimitError" /\ raised[k].retry_after > 0)
          => LET h == raised[k].retry_after * Unit
                 computed == CalculateDelay(policy, k - 1, draws[k])
             IN  /\ sleeps[k] >= h
                 /\ sleeps[k] >= computed
                 /\ sleeps[k] \in {h, computed}

\* A hint above the computed delay and a hint below it, both slept.
C8_Witness ==
    /\ Len(sleeps) >= 2
    /\ raised[1] = [kind |-> "RateLimitError", retry_after |-> 12]
    /\ sleeps[1] = 12 * Unit
    /\ raised[2] = [kind |-> "RateLimitError", retry_after |-> 2]
    /\ sleeps[2] > 2 * Unit

\* C9: with maxAttempts=3, baseDelay=1s, multiplier=2, maxDelay=10s and
\* jitter off, three consecutive transient failures are followed by the
\* delays [1s, 2s, 4s] and the third failure is final: the operation is
\* not invoked a fourth time.
ExamplePolicy ==
    [max_retries |-> 3, base_delay |-> 1, max_delay |-> 10,
     exponential_base |-> 2, jitter |-> FALSE]

TransientKinds == {"NetworkError", "TimeoutError"}

C9_ThreeFailuresAreFinal ==
    (/\ policy = ExamplePolicy
     /\ Len(raised) >= 3
     /\ \A k \in 1..3 : raised[k].kind \in TransientKinds)
        => /\ sleeps = <<1 * Unit, 2 * Unit, 4 * Unit>>
           /\ calls = 3
           /\ rh_pc = "done"
           /\ result = [outcome |-> "raised", exc |-> raised[3]]

\* C10: when every invocation fails with a retryable error, the operation
\* is invoked exactly max-attempts times, the handler sleeps max-attempts
\* minus 1 times (not after the last failure) and raises the last exception.
RetryableKinds == {"NetworkError", "RateLimitError", "RetryableError", "TimeoutError"}

C10_MaxAttemptsInvocations ==
    (/\ rh_pc = "done"
     /\ policy.max_retries >= 1
     /\ result.outcome = "raised"
     /\ \A k \in 1..Len(raised) : raised[k].kind \in RetryableKinds)
        => /\ calls = policy.max_retries
           /\ Len(sleeps) = policy.max_retries - 1
           /\ result.exc = raised[Len(raised)]

\* C11: should_retry is false from attempt max_retries on; below it, it is
\* true for rate-limit and network (blocked, transient) errors and false for
\* non-retryable ones, so an operation whose first failure is non-retryable
\* is invoked once and its error is raised without a sleep.
C11_ShouldRetryClassification ==
    /\ \A e \in Exceptions : \A a \in 0..(MaxRetriesBound + 1) :
          /\ a >= policy.max_retries => ~ShouldRetry(policy, e, a)
          /\ a < policy.max_retries =>
                /\ e.kind \in {"RateLimitError", "NetworkError", "TimeoutError"}
                      => ShouldRetry(policy, e, a)
                /\ e.kind = "NonRetryableError" => ~ShouldRetry(policy, e, a)
    /\ (raised # <<>> /\ raised[1].kind = "NonRetryableError")
          => /\ rh_pc = "done"
             /\ calls = 1
             /\ sleeps = <<>>
             /\ result = [outcome |-> "raised", exc |-> raised[1]]

\* A handler with retries left gives up on a non-retryable error.
C11_Witness ==
    /\ rh_pc = "done"
    /\ policy.max_retries >= 2
    /\ raised = <<[kind |-> "NonRetryableError", retry_after |-> 0]>>
    /\ calls = 1
    /\ sleeps = <<>>

\* C12: an operation that raises a plain exception k times, k below the
\* attempt limit, and then succeeds is retried: the handler returns the
\* value after k + 1 invocations and k sleeps.
C12_PlainExceptionRetried ==
    (/\ rh_pc = "done"
     /\ raised # <<>>
     /\ Len(raised) < policy.max_retries
     /\ \A k \in 1..Len(raised) : raised[k].kind = "Exception")
        => /\ result.outcome = "returned"
           /\ calls = Len(raised) + 1
           /\ Len(sleeps) = Len(raised)

(***************************************************************************)
(* _make_request (garage_grown_gear_scraper.py, lines 467-583) and the     *)
(* transports behind it.  RequestSpec follows a scraper through an         *)
(* optional _establish_session and up to MaxRequests calls of              *)
(* _make_request.  A request to the target is in flight between its Begin  *)
(* and its End action.  Durations are in seconds; a random duration is     *)
(* logged as 0.                                                            *)
(***************************************************************************)
RequestConfigs ==
    [max_retries : 1..MaxRetriesBound,
     retry_delay : {1, 2},
     github_actions : BOOLEAN]

\* What fetcher.get does on one attempt: a response status or an exception.
Statuses == {"200", "403", "429", "500", "exception"}

\* What the body of a transport does: it gets a page, gets none, or raises.
TransportOutcomes == {"page", "none", "raises"}

\* The Referer values of lines 497-514.
SearchQuerySale == "https://www.google.com/search?q=garage+grown+gear+sale"
SearchQuery == "https://www.google.com/search?q=garage+grown+gear"
SearchRoot == "https://www.google.com/"
SiteRoot == "https://www.garagegrowngear.com/"

SleepEvent(what, secs) == [type |-> "sleep", what |-> what, n |-> secs, res |-> ""]
GetEvent(a, status) == [type |-> "get", what |-> "fetcher", n |-> a, res |-> status]
TransportEvent(name, outcome) == [type |-> "transport", what |-> name, n |-> 0, res |-> outcome]

\* Variant: the referrer follows the attempts, not the logical requests.
RefererChoices_PerAttempt(count, a, established) ==
    IF count + a = 1 THEN {SearchQuerySale}
    ELSE IF count + a = 2 THEN {SearchRoot}
    ELSE IF established THEN {SiteRoot}
    ELSE {SearchQuery, SiteRoot, SearchRoot}

\* Lines 497-514: the referrers request number count may send on attempt a.
RefererChoices(count, a, established) ==
    IF count = 1 THEN {SearchQuerySale}
    ELSE IF count = 2 THEN {SearchRoot}
    ELSE IF established THEN {SiteRoot}
    ELSE {SearchQuery, SiteRoot, SearchRoot}

\* Variant: the wait after a 429 has no 30 second floor.
BackoffSleeps_NoFloor(cfg, status, a) ==
    LET more == a < cfg.max_retries - 1
    IN  (IF status = "403" /\ more
         THEN <<SleepEvent("backoff403", cfg.retry_delay * Pow(3, a))>>
         ELSE IF status = "429" /\ more
         THEN <<SleepEvent("backoff429", cfg.retry_delay * Pow(2, a))>>
         ELSE <<>>)
        \o (IF more THEN <<SleepEvent("backoff", cfg.retry_delay * Pow(2, a))>>
            ELSE <<>>)

\* Lines 537-566: the sleeps that follow the answer of attempt a.
BackoffSleeps(cfg, status, a) ==
    LET more == a < cfg.max_retries - 1
    IN  (IF status = "403" /\ more
         THEN <<SleepEvent("backoff403", cfg.retry_delay * Pow(3, a))>>
         ELSE IF status = "429" /\ more
         THEN <<SleepEvent("backoff429", 30 + cfg.retry_delay * Pow(2, a))>>
         ELSE <<>>)
        \o (IF more THEN <<SleepEvent("backoff", cfg.retry_delay * Pow(2, a))>>
            ELSE <<>>)

\* Variant: the transports are tried from the first failed attempt on.
AttemptsExhausted_AfterFirst(cfg, a) == a >= 1

\* Line 484: the loop ends after max_retries attempts.
AttemptsExhausted(cfg, a) == a >= cfg.max_retries

\* Variant: the whole chain is tried in every environment.
Approaches_Everywhere(github_actions) == <<"curl", "session", "playwright">>

\* Lines 572-581 with 216-220: the transports tried after the attempts.
Approaches(github_actions) ==
    IF github_actions THEN <<"curl", "session", "playwright">>
    ELSE <<"playwright">>

\* The except clauses of the _try_* methods (lines 276-278, 325-327,
\* 372-374): an exception inside a transport becomes None.
TransportReturn(outcome) == IF outcome = "page" THEN "page" ELSE "none"

\* What the target does with the request of a transport: it answers with a
\* status and a body, the transport gets nothing to show ("none": no
\* connection, an error exit, no output), or the transport's code raises.
TransportAnswers == {"200", "403", "429", "none", "raises"}

\* The HTTP status of an answer, 0 without one.
StatusCode(answer) ==
    CASE answer = "200" -> 200
      [] answer = "403" -> 403
      [] answer = "429" -> 429
      [] OTHER -> 0

\* What the body of an approach makes of the answer.  The command-line
\* client is run without --fail and its status is not read: exit code 0 and
\* some output give a page marked with status 200 (lines 265-271).  The
\* session and the browser return a page for status 200 only (lines
\* 316-323, 411-423).
ApproachOutcome(name, answer) ==
    IF answer \in {"none", "raises"} THEN answer
    ELSE IF name = "curl" THEN "page"
    ELSE IF answer = "200" THEN "page"
    ELSE "none"

\* The log entry of a transport with the status it was answered with.
AnsweredEvent(name, answer) ==
    [TransportEvent(name, ApproachOutcome(name, answer))
        EXCEPT !.n = StatusCode(answer)]

\* Variant: a transport that fails ends the chain.
ChainAfterFailure_Stop(chain) == <<>>

\* Lines 222-230: the loop goes on to the next approach.
ChainAfterFailure(chain) == Tail(chain)

\* Variant: the fetcher returns before the response has arrived.
AfterSend_Async(waiting, next) == next

\* Lines 438, 519-531, 265, 314, 359: fetcher.get, subprocess.run and
\* session.get are synchronous calls; the caller waits for the response.
AfterSend(waiting, next) == waiting

\* Variant: every attempt generates a header profile of its own.
ProfilesAtAttempt_Fresh(gens) == gens + 1

\* Lines 482-533: _get_rotating_headers is called before the attempt loop;
\* an attempt sends enhanced_headers as it is, with the Referer set anew.
ProfilesAtAttempt(gens) == gens

RequestInit ==
    /\ ComponentsIdle
    /\ CrawlIdle
    /\ RetryIdle
    /\ HeaderIdle
    /\ BatchIdle
    /\ mr_pc = "start"
    /\ mr_config \in RequestConfigs
    /\ mr_attempt = 0
    /\ mr_referer = None
    /\ mr_header_gens = 0
    /\ mr_chain = <<>>
    /\ mr_log = <<>>
    /\ mr_result = None
    /\ in_flight = 0

request_frame == <<crawl_rest_vars, retry_vars, header_vars, batch_vars,
                   component_vars>>

\* _establish_session, lines 437-450: the homepage is requested.
WarmupBegin ==
    /\ mr_pc = "start"
    /\ in_flight' = in_flight + 1
    /\ mr_pc' = AfterSend("warmup_awaiting", "idle")
    /\ UNCHANGED <<mr_config, mr_attempt, mr_referer, mr_header_gens, mr_chain,
                   mr_log, mr_result, session_established, warmup,
                   request_count>>
    /\ UNCHANGED request_frame

\* _establish_session, lines 452-465: status 200 establishes the session and
\* is followed by a reading pause.
WarmupEnd ==
    /\ mr_pc = "warmup_awaiting"
    /\ in_flight' = in_flight - 1
    /\ \E status \in WarmupOutcomes :
          /\ warmup' = status
          /\ session_established' = SessionEstablished(status)
          /\ mr_log' = IF SessionEstablished(status)
                       THEN Append(mr_log, SleepEvent("warmup", 0))
                       ELSE mr_log
    /\ mr_pc' = "idle"
    /\ UNCHANGED <<mr_config, mr_attempt, mr_referer, mr_header_gens, mr_chain,
                   mr_result, request_count>>
    /\ UNCHANGED request_frame

\* Lines 478-484: the call counts the request and generates the headers.
MakeRequestCall ==
    /\ mr_pc \in {"start", "idle"}
    /\ request_count < MaxRequests
    /\ request_count' = request_count + 1
    /\ mr_header_gens' = 1
    /\ mr_attempt' = 0
    /\ mr_log' = <<>>
    /\ mr_result' = None
    /\ mr_referer' = None
    /\ mr_chain' = <<>>
    /\ mr_pc' = "attempt"
    /\ UNCHANGED <<mr_config, in_flight, session_established, warmup>>
    /\ UNCHANGED request_frame

\* Lines 485-533: the pause before the request, the referrer, the request.
GetBegin ==
    /\ mr_pc = "attempt"
    /\ mr_log' = Append(mr_log, SleepEvent(IF mr_attempt > 0 THEN "human_retry"
                                           ELSE "human", 0))
    /\ mr_referer' \in RefererChoices(request_count, mr_attempt, session_established)
    /\ in_flight' = in_flight + 1
    /\ mr_pc' = AfterSend("awaiting", "attempt")
    /\ mr_header_gens' = ProfilesAtAttempt(mr_header_gens)
    /\ UNCHANGED <<mr_config, mr_attempt, mr_chain, mr_result,
                   session_established, warmup,
                   request_count>>
    /\ UNCHANGED request_frame

\* Lines 535-571: the answer of the attempt, the backoff sleeps, and either
\* the return of the page, the next attempt or the escalation.
GetEnd ==
    /\ mr_pc = "awaiting"
    /\ in_flight' = in_flight - 1
    /\ \E status \in Statuses :
          IF status = "200"
          THEN /\ mr_log' = Append(mr_log, GetEvent(mr_attempt, status))
               /\ mr_result' = "page"
               /\ mr_pc' = "idle"
               /\ UNCHANGED <<mr_attempt, mr_chain>>
          ELSE /\ mr_log' = Append(mr_log, GetEvent(mr_attempt, status))
                              \o BackoffSleeps(mr_config, status, mr_attempt)
               /\ mr_attempt' = mr_attempt + 1
               /\ IF AttemptsExhausted(mr_config, mr_attempt + 1)
                  THEN /\ mr_chain' = Approaches(mr_config.github_actions)
                       /\ mr_pc' = "escalate"
                  ELSE /\ mr_pc' = "attempt"
                       /\ UNCHANGED mr_chain
               /\ UNCHANGED mr_result
    /\ UNCHANGED <<mr_config, mr_referer, mr_header_gens, session_established,
                   warmup, request_count>>
    /\ UNCHANGED request_frame

\* The next approach of the chain issues its request (lines 224, 579); the
\* command-line client and the session generate headers of their own, the
\* session pauses before its request (lines 241, 302, 312).
TransportBegin ==
    /\ mr_pc = "escalate"
    /\ mr_chain # <<>>
    /\ mr_header_gens' = IF Head(mr_chain) \in {"curl", "session"}
                         THEN mr_header_gens + 1 ELSE mr_header_gens
    /\ mr_log' = IF Head(mr_chain) = "session"
                 THEN Append(mr_log, SleepEvent("transport", 0)) ELSE mr_log
    /\ in_flight' = in_flight + 1
    /\ mr_pc' = AfterSend("transport_awaiting", "escalate")
    /\ UNCHANGED <<mr_config, mr_attempt, mr_referer, mr_chain, mr_result,
                   session_established, warmup,
                   request_count>>
    /\ UNCHANGED request_frame

\* The approach returns (lines 225-232, 575-583): a page ends the chain,
\* anything else leads to the next approach or, after the last one, to None.
\* The browser pauses after its navigation (line 363).
TransportEnd ==
    /\ mr_pc = "transport_awaiting"
    /\ in_flight' = in_flight - 1
    /\ \E answer \in TransportAnswers :
       LET outcome == ApproachOutcome(Head(mr_chain), answer) IN
          /\ outcome \in TransportOutcomes
          /\ mr_log' = (IF Head(mr_chain) = "playwright" /\ outcome # "raises"
                        THEN Append(mr_log, SleepEvent("transport", 0)) ELSE mr_log)
                       \o <<AnsweredEvent(Head(mr_chain), answer)>>
          /\ IF TransportReturn(outcome) = "page"
             THEN /\ mr_result' = "page"
                  /\ mr_pc' = "idle"
                  /\ UNCHANGED mr_chain
             ELSE IF TransportReturn(outcome) = "raises" /\ ~mr_config.github_actions
             THEN \* line 579 calls the browser outside any try block
                  /\ mr_result' = "raised"
                  /\ mr_pc' = "idle"
                  /\ UNCHANGED mr_chain
             ELSE /\ mr_chain' = ChainAfterFailure(mr_chain)
                  /\ IF ChainAfterFailure(mr_chain) = <<>>
                     THEN /\ mr_result' = None
                          /\ mr_pc' = "idle"
                     ELSE /\ mr_pc' = "escalate"
                          /\ UNCHANGED mr_result
    /\ UNCHANGED <<mr_config, mr_attempt, mr_referer, mr_header_gens,
                   session_established, warmup,
                   request_count>>
    /\ UNCHANGED request_frame

RequestNext ==
    \/ WarmupBegin
    \/ WarmupEnd
    \/ MakeRequestCall
    \/ GetBegin
    \/ GetEnd
    \/ TransportBegin
    \/ TransportEnd

RequestSpec == RequestInit /\ [][RequestNext]_vars

(***************************************************************************)
(* Claims about _make_request.                                             *)
(***************************************************************************)
IsTransport(e) == e.type = "transport"
IsGet(e) == e.type = "get"
TransportsOf(log) == SelectSeq(log, IsTransport)
GetsOf(log) == SelectSeq(log, IsGet)
NamesOf(events) == [k \in 1..Len(events) |-> events[k].what]
IsPrefix(s, t) == Len(s) <= Len(t) /\ \A k \in 1..Len(s) : s[k] = t[k]
FullChain == <<"curl", "session", "playwright">>
Returned == mr_pc = "idle" /\ request_count > 0

\* C13: no alternative transport is tried before all max_retries attempts of
\* the primary fetcher have failed; in the constrained environment the
\* transports are tried in the order command-line client, session, headless
\* browser, the first success ends the chain, and the fetch fails only when
\* all three have failed.
C13_EscalationAfterAttemptsInOrder ==
    LET ts == TransportsOf(mr_log)
        gs == GetsOf(mr_log)
    IN  /\ \A k \in 1..Len(mr_log) :
              IsTransport(mr_log[k]) =>
                 LET before == GetsOf(SubSeq(mr_log, 1, k))
                 IN  /\ Len(before) = mr_config.max_retries
                     /\ \A j \in 1..Len(before) : before[j].res # "200"
        /\ mr_config.github_actions =>
              /\ IsPrefix(NamesOf(ts), FullChain)
              /\ \A k \in 1..(Len(ts) - 1) : ts[k].res # "page"
              /\ (Returned /\ ts # <<>> /\ ts[Len(ts)].res = "page")
                    => mr_result = "page"
              /\ (Returned /\ mr_result = None)
                    => /\ NamesOf(ts) = FullChain
                       /\ \A k \in 1..3 : ts[k].res # "page"
              /\ (Returned /\ Len(ts) = 3 /\ \A k \in 1..3 : ts[k].res # "page")
                    => mr_result = None

C13_Witness ==
    /\ Returned
    /\ mr_config.github_actions
    /\ mr_config.max_retries = 2
    /\ Len(GetsOf(mr_log)) = 2
    /\ NamesOf(TransportsOf(mr_log)) = <<"curl", "session">>
    /\ TransportsOf(mr_log)[2].res = "page"
    /\ mr_result = "page"

\* C14: the escalation strategies are isolated: after a transport that
\* raises or fails the next transport of the chain is still attempted, and
\* no exception of a transport leaves the fetch, which reports failure as a
\* value.
C14_TransportsIsolated ==
    LET ts == TransportsOf(mr_log)
        chain == Approaches(mr_config.github_actions)
    IN  /\ mr_result \in {None, "page"}
        /\ \A k \in 1..Len(ts) :
              (ts[k].res # "page" /\ k < Len(chain) /\ Returned) => Len(ts) > k
        /\ (mr_pc = "escalate" /\ ts # <<>>)
              => /\ ts[Len(ts)].res # "page"
                 /\ mr_chain = SubSeq(chain, Len(ts) + 1, Len(chain))
                 /\ mr_chain # <<>>

C14_Witness ==
    /\ Returned
    /\ LET ts == TransportsOf(mr_log)
       IN  /\ NamesOf(ts) = FullChain
           /\ ts[1].res = "raises"
           /\ ts[2].res = "raises"
           /\ ts[3].res = "page"
    /\ mr_result = "page"

AwaitingPcs == {"warmup_awaiting", "awaiting", "transport_awaiting"}

\* C16: at most one request to the target is in flight at any time: every
\* warm-up, first-attempt, retry and transport request starts only when no
\* request is in flight, after the previous request has been answered and
\* the delay that follows it has been slept.
C16_OneRequestInFlight ==
    /\ [](in_flight <= 1 /\ (in_flight = 1 <=> mr_pc \in AwaitingPcs))
    /\ [][in_flight' > in_flight =>
             /\ in_flight = 0
             /\ mr_pc \in {"start", "attempt", "escalate"}]_vars

C16_Witness ==
    /\ in_flight = 1
    /\ mr_pc = "awaiting"
    /\ session_established
    /\ request_count = 2
    /\ mr_attempt = 1
    /\ Len(GetsOf(mr_log)) = 1

\* C20: the Referer of a request is determined by the ordinal of the
\* _make_request call, which is counted once per call and not per attempt:
\* call 1 sends the search-query URL, call 2 the search-engine root, a later
\* call the site root when the session is established and otherwise a search
\* query, the site root or the search-engine root.
C20_RefererByRequestOrdinal ==
    mr_referer # None =>
       /\ request_count = 1 => mr_referer = SearchQuerySale
       /\ request_count = 2 => mr_referer = SearchRoot
       /\ (request_count >= 3 /\ session_established) => mr_referer = SiteRoot
       /\ (request_count >= 3 /\ ~session_established)
             => mr_referer \in {SearchQuery, SiteRoot, SearchRoot}

C20_Witness ==
    /\ mr_pc = "awaiting"
    /\ request_count = 1
    /\ mr_attempt = 2
    /\ mr_referer = SearchQuerySale

(***************************************************************************)
(* _get_rotating_headers (garage_grown_gear_scraper.py, lines 160-206).    *)
(* A User-Agent is kept as the operating system, browser and major version *)
(* it names, a sec-ch-ua value as its brand and version.                   *)
(***************************************************************************)
UserAgents ==
    {[os |-> "Windows", browser |-> "Chrome", version |-> 119],
     [os |-> "Windows", browser |-> "Chrome", version |-> 118],
     [os |-> "Mac", browser |-> "Chrome", version |-> 119],
     [os |-> "Linux", browser |-> "Chrome", version |-> 119],
     [os |-> "Windows", browser |-> "Firefox", version |-> 119],
     [os |-> "Mac", browser |-> "Firefox", version |-> 119]}

Platforms == {"Win32", "MacIntel", "Linux x86_64"}

ChromeVersions ==
    {[brand |-> "Google Chrome", version |-> 119],
     [brand |-> "Google Chrome", version |-> 118],
     [brand |-> "Chromium", version |-> 119]}

\* The sec-ch-ua entry of a profile from which line 204 popped the header.
NoSecChUa == [brand |-> None, version |-> 0]

AcceptLanguages == {"en-US,en;q=0.9", "en-GB,en;q=0.9", "en-US,en;q=0.8"}
SecFetchSites == {"none", "same-origin", "cross-site"}
CacheControls == {"max-age=0", "no-cache"}

\* Lines 178-204: the three selections are independent random choices, and
\* DNT and sec-ch-ua are dropped at random.
RotatingHeaders ==
    {[generated |-> TRUE,
      user_agent |-> ua,
      sec_ch_ua_platform |-> platform,
      sec_ch_ua |-> IF drop_hint THEN NoSecChUa ELSE chrome,
      accept_language |-> lang,
      sec_fetch_site |-> site_hint,
      cache_control |-> cache,
      dnt |-> IF drop_dnt THEN None ELSE "1"] :
        ua \in UserAgents, platform \in Platforms, chrome \in ChromeVersions,
        lang \in AcceptLanguages, site_hint \in SecFetchSites,
        cache \in CacheControls, drop_hint \in BOOLEAN, drop_dnt \in BOOLEAN}

HeaderInit ==
    /\ ComponentsIdle
    /\ CrawlIdle
    /\ RetryIdle
    /\ RequestIdle
    /\ BatchIdle
    /\ HeaderIdle

GetRotatingHeaders ==
    /\ headers' \in RotatingHeaders
    /\ UNCHANGED <<crawl_vars, retry_vars, request_vars, batch_vars,
                   component_vars>>

HeaderNext == GetRotatingHeaders

HeaderSpec == HeaderInit /\ [][HeaderNext]_vars

\* The operating system a sec-ch-ua-platform value stands for.
PlatformOs(platform) ==
    CASE platform = "Win32" -> "Windows"
      [] platform = "MacIntel" -> "Mac"
      [] platform = "Linux x86_64" -> "Linux"

\* C19: every generated header profile is consistent: the platform client
\* hint names the operating system of the User-Agent, and a browser client
\* hint is sent only with a User-Agent of that browser and version.
C19_HeaderProfileConsistent ==
    headers.generated =>
       /\ PlatformOs(headers.sec_ch_ua_platform) = headers.user_agent.os
       /\ headers.sec_ch_ua # NoSecChUa =>
             /\ headers.user_agent.browser = "Chrome"
             /\ headers.sec_ch_ua.version = headers.user_agent.version

(***************************************************************************)
(* BatchProcessor.process_in_batches (monitoring.py, lines 378-414), one   *)
(* step per batch, with processor_func = _extract_products_batch or a      *)
(* function that raises on some batch.                                     *)
(***************************************************************************)
ElemKinds == {"ok", "raises", "noname"}

\* The lists of item elements of length n; an element's id is its position.
ElementLists(n) ==
    {[k \in 1..n |-> Elem(k, kinds[k])] : kinds \in [1..n -> ElemKinds]}

BatchInputs == UNION {ElementLists(n) : n \in 0..MaxItems}

\* MemoryTracker.start_tracking, monitoring.py lines 180-185.
StartTracking(active) == TRUE

\* Variant: the tracker is stopped only on the normal path.
StopTrackingOnRaise_NoFinally(active) == active

\* Lines 410-411 with stop_tracking, lines 194-198: the finally clause stops
\* the tracker when an exception passes through.
StopTrackingOnRaise(active) == FALSE

BatchInit ==
    /\ ComponentsIdle
    /\ CrawlIdle
    /\ RetryIdle
    /\ RequestIdle
    /\ HeaderIdle
    /\ bp_pc = "start"
    /\ bp_items \in BatchInputs
    /\ bp_start = 0
    /\ bp_results = <<>>
    /\ bp_calls = <<>>
    /\ tracking_active = FALSE

batch_frame == <<crawl_vars, retry_vars, request_vars, header_vars,
                 component_vars>>

\* Lines 391-392: start_tracking() and results = [].
BpStart ==
    /\ bp_pc = "start"
    /\ tracking_active' = StartTracking(tracking_active)
    /\ bp_results' = <<>>
    /\ bp_start' = 0
    /\ bp_pc' = "loop"
    /\ UNCHANGED <<bp_items, bp_calls>>
    /\ UNCHANGED batch_frame

\* Lines 395-408: one iteration of the loop.  processor_func returns the
\* records of the batch, or raises; its exception passes the finally clause
\* and leaves process_in_batches.
BpBatch ==
    /\ bp_pc = "loop"
    /\ bp_start < Len(bp_items)
    /\ LET batch == BatchOf(bp_items, bp_start)
       IN  /\ bp_calls' = Append(bp_calls, batch)
           /\ \E raises \in BOOLEAN :
                 IF raises
                 THEN /\ tracking_active' = StopTrackingOnRaise(tracking_active)
                      /\ bp_pc' = "raised"
                      /\ UNCHANGED <<bp_results, bp_start>>
                 ELSE /\ bp_results' = bp_results \o ExtractProductsBatch(batch)
                      /\ bp_start' = bp_start + BatchSize
                      /\ UNCHANGED <<bp_pc, tracking_active>>
    /\ UNCHANGED bp_items
    /\ UNCHANGED batch_frame

\* Lines 410-413: the loop is over; stop_tracking() and return results.
BpReturn ==
    /\ bp_pc = "loop"
    /\ bp_start >= Len(bp_items)
    /\ tracking_active' = FALSE
    /\ bp_pc' = "returned"
    /\ UNCHANGED <<bp_items, bp_start, bp_results, bp_calls>>
    /\ UNCHANGED batch_frame

BatchNext ==
    \/ BpStart
    \/ BpBatch
    \/ BpReturn

BatchSpec == BatchInit /\ [][BatchNext]_vars

(***************************************************************************)
(* Claims about process_in_batches.                                        *)
(***************************************************************************)
RECURSIVE Concat(_)
Concat(seqs) == IF seqs = <<>> THEN <<>> ELSE Head(seqs) \o Concat(Tail(seqs))

ResultsOf(batches) == [k \in 1..Len(batches) |-> ExtractProductsBatch(batches[k])]

\* C17: processor_func is called on consecutive, non-overlapping chunks
\* that cover items in order, each of batch_size items except a possibly
\* shorter last one, and never for empty items; the value returned is the
\* concatenation of what it returned, in chunk order, which for the
\* item-wise _extract_products_batch equals its value on the whole list.
C17_BatchesCoverItemsInOrder ==
    /\ bp_pc \in {"loop", "returned"} =>
          /\ Concat(bp_calls) = Slice(bp_items, 0, bp_start)
          /\ bp_results = Concat(ResultsOf(bp_calls))
          /\ \A k \in 1..Len(bp_calls) :
                /\ bp_calls[k] # <<>>
                /\ Len(bp_calls[k]) <= BatchSize
                /\ k < Len(bp_calls) => Len(bp_calls[k]) = BatchSize
    /\ bp_pc = "returned" =>
          /\ Concat(bp_calls) = bp_items
          /\ bp_items = <<>> => bp_calls = <<>>
          /\ bp_results = ExtractProductsBatch(bp_items)
          /\ bp_results = ProcessInBatches(bp_items)

C17_Witness ==
    /\ bp_pc = "returned"
    /\ Len(bp_calls) >= 2
    /\ Len(bp_calls[Len(bp_calls)]) < BatchSize
    /\ Len(bp_results) >= 2
    /\ Len(bp_results) < Len(bp_items)

\* C18: when processor_func raises on a chunk the exception leaves
\* process_in_batches: the call does not return a value, no later chunk is
\* processed, and the memory tracker is not tracking any more.
C18_ChunkExceptionPropagates ==
    bp_pc = "raised" =>
       /\ ~ENABLED BatchNext
       /\ Len(bp_calls) = (bp_start \div BatchSize) + 1
       /\ bp_calls[Len(bp_calls)] = BatchOf(bp_items, bp_start)
       /\ ~tracking_active

C18_Witness ==
    /\ bp_pc = "raised"
    /\ bp_calls # <<>>
    /\ bp_start + BatchSize < Len(bp_items)
    /\ ~tracking_active

(***************************************************************************)
(* Proxy rotation: _get_next_proxy and _get_working_proxy                  *)
(* (garage_grown_gear_scraper.py, lines 120-158).  ProxySpec follows up to *)
(* MaxProxyCalls calls of the two methods on one scraper.                  *)
(***************************************************************************)
ProxyPool == <<"proxy1", "proxy2", "proxy3", "proxy4", "proxy5">>

ProxyLists == {SubSeq(ProxyPool, 1, n) : n \in 0..MaxProxies}

\* Variant: the rotation index is not advanced.
GetNextProxy_Stuck(list, index) ==
    IF list = <<>> THEN [proxy |-> None, index |-> index]
    ELSE [proxy |-> list[index + 1], index |-> index]

\* Lines 120-127: the proxy returned and the rotation index afterwards.
GetNextProxy(list, index) ==
    IF list = <<>> THEN [proxy |-> None, index |-> index]
    ELSE [proxy |-> list[index + 1], index |-> (index + 1) % Len(list)]

\* Variant: the list is gone through twice.
TestsPerCall_Twice(list) == 2 * Len(list)

\* Line 149: for _ in range(len(self.proxy_list)).
TestsPerCall(list) == Len(list)

\* Lines 149-158: the loop with remaining iterations left; alive says what
\* _test_proxy returns for each candidate.
RECURSIVE WorkingProxyLoop(_, _, _, _, _)
WorkingProxyLoop(list, index, alive, remaining, tested) ==
    IF remaining = 0
    THEN [proxy |-> None, index |-> index, tested |-> tested]
    ELSE LET next == GetNextProxy(list, index)
         IN  IF alive[next.proxy]
             THEN [proxy |-> next.proxy, index |-> next.index,
                   tested |-> Append(tested, next.proxy)]
             ELSE WorkingProxyLoop(list, next.index, alive, remaining - 1,
                                   Append(tested, next.proxy))

\* Lines 143-158.
GetWorkingProxy(list, index, alive) ==
    IF list = <<>>
    THEN [proxy |-> None, index |-> index, tested |-> <<>>]
    ELSE WorkingProxyLoop(list, index, alive, TestsPerCall(list), <<>>)

\* Lines 257-260 and 305-308: what a transport adds to its request for the
\* proxy it was given.
ProxyArguments(proxy) == IF proxy # None THEN <<"--proxy", proxy>> ELSE <<>>

ProxyInit ==
    /\ ProcessorIdle
    /\ MonitorIdle
    /\ PaginationIdle
    /\ SysmonIdle
    /\ CrawlIdle
    /\ RetryIdle
    /\ RequestIdle
    /\ HeaderIdle
    /\ BatchIdle
    /\ proxy_list \in ProxyLists
    /\ current_proxy_index = 0
    /\ px_calls = 0
    /\ px_run_start = 0
    /\ px_run = <<>>
    /\ wp_before = 0
    /\ wp_alive = <<>>
    /\ wp_tested = <<>>
    /\ wp_result = "no_call"
    /\ esc_proxies = <<>>

proxy_frame == <<crawl_vars, retry_vars, request_vars, header_vars, batch_vars,
                 processor_vars, monitor_vars, pagination_vars, sysmon_vars>>

\* One call of _get_next_proxy.
NextProxyCall ==
    /\ px_calls < MaxProxyCalls
    /\ LET r == GetNextProxy(proxy_list, current_proxy_index)
       IN  /\ current_proxy_index' = r.index
           /\ px_run' = Append(px_run, r.proxy)
    /\ px_calls' = px_calls + 1
    /\ UNCHANGED <<proxy_list, px_run_start, wp_before, wp_alive, wp_tested,
                   wp_result, esc_proxies>>
    /\ UNCHANGED proxy_frame

\* One call of _get_working_proxy.
WorkingProxyCall ==
    /\ px_calls < MaxProxyCalls
    /\ \E alive \in [Range(proxy_list) -> BOOLEAN] :
          LET r == GetWorkingProxy(proxy_list, current_proxy_index, alive)
          IN  /\ current_proxy_index' = r.index
              /\ px_run_start' = r.index
              /\ wp_alive' = alive
              /\ wp_tested' = r.tested
              /\ wp_result' = r.proxy
    /\ wp_before' = current_proxy_index
    /\ px_run' = <<>>
    /\ px_calls' = px_calls + 1
    /\ UNCHANGED <<proxy_list, esc_proxies>>
    /\ UNCHANGED proxy_frame

\* One transport with its proxy.
ProxyUse(transport, proxy) == [transport |-> transport, proxy |-> proxy]

\* _github_actions_evasion (lines 207-232) as far as the proxies go: the
\* command-line client asks _get_working_proxy for its proxy (lines
\* 257-260); if it returns no page, the session asks _get_working_proxy for
\* its own (lines 305-308).  The liveness tests of the second call need not
\* answer as those of the first.  The browser takes no proxy.
GithubActionsEvasion ==
    /\ px_calls < MaxProxyCalls
    /\ \E curl_alive, session_alive \in [Range(proxy_list) -> BOOLEAN] :
       \E curl_page \in BOOLEAN :
          LET curl == GetWorkingProxy(proxy_list, current_proxy_index, curl_alive)
              session == GetWorkingProxy(proxy_list, curl.index, session_alive)
          IN  IF curl_page
              THEN /\ esc_proxies' = <<ProxyUse("curl", curl.proxy)>>
                   /\ current_proxy_index' = curl.index
                   /\ px_run_start' = curl.index
                   /\ wp_before' = current_proxy_index
                   /\ wp_alive' = curl_alive
                   /\ wp_tested' = curl.tested
                   /\ wp_result' = curl.proxy
              ELSE /\ esc_proxies' = <<ProxyUse("curl", curl.proxy),
                                       ProxyUse("session", session.proxy)>>
                   /\ current_proxy_index' = session.index
                   /\ px_run_start' = session.index
                   /\ wp_before' = curl.index
                   /\ wp_alive' = session_alive
                   /\ wp_tested' = session.tested
                   /\ wp_result' = session.proxy
    /\ px_run' = <<>>
    /\ px_calls' = px_calls + 1
    /\ UNCHANGED proxy_list
    /\ UNCHANGED proxy_frame

ProxyNext ==
    \/ NextProxyCall
    \/ WorkingProxyCall
    \/ GithubActionsEvasion

ProxySpec == ProxyInit /\ [][ProxyNext]_vars

\* The candidate at rotation index k (counted from 0).
Candidate(k) == proxy_list[k + 1]

\* C21: rotation is round-robin: with n >= 1 candidates and index i before a
\* run of _get_next_proxy calls, call number k of the run (k = 0 for the
\* first call) returns candidate (i + k) mod n, and the index stays in
\* 0..n-1; without candidates every call returns None and the index is not
\* changed.
C21_RoundRobin ==
    LET n == Len(proxy_list)
    IN  /\ n >= 1 =>
              /\ current_proxy_index \in 0..(n - 1)
              /\ current_proxy_index = (px_run_start + Len(px_run)) % n
              /\ \A k \in 0..(Len(px_run) - 1) :
                    px_run[k + 1] = Candidate((px_run_start + k) % n)
        /\ n = 0 =>
              /\ current_proxy_index = 0
              /\ \A k \in 1..Len(px_run) : px_run[k] = None

C21_Witness ==
    /\ Len(proxy_list) = 3
    /\ px_run_start = 2
    /\ px_run = <<"proxy3", "proxy1">>
    /\ current_proxy_index = 1

\* C22: _get_working_proxy tests each candidate at most once, in rotation
\* order from the current index, and returns the first one whose test
\* succeeds; it returns None when every test fails or the list is empty,
\* the rotation index is then the one before the call and the caller sends
\* its request without a proxy.
C22_WorkingProxyFirstAlive ==
    LET n == Len(proxy_list)
    IN  wp_result # "no_call" =>
           /\ Len(wp_tested) <= n
           /\ \A k \in 1..Len(wp_tested) :
                 /\ wp_tested[k] = Candidate((wp_before + k - 1) % n)
                 /\ k < Len(wp_tested) => ~wp_alive[wp_tested[k]]
           /\ wp_result # None =>
                 /\ wp_tested # <<>>
                 /\ wp_result = wp_tested[Len(wp_tested)]
                 /\ wp_alive[wp_result]
           /\ wp_result = None <=> \A p \in Range(proxy_list) : ~wp_alive[p]
           /\ wp_result = None =>
                 /\ Len(wp_tested) = n
                 /\ px_run_start = wp_before
                 /\ ProxyArguments(wp_result) = <<>>

C22_Witness ==
    /\ Len(proxy_list) = 3
    /\ wp_before = 1
    /\ wp_tested = <<"proxy2", "proxy3", "proxy1">>
    /\ wp_result = None
    /\ px_run = <<>>
    /\ current_proxy_index = 1

(***************************************************************************)
(* Further properties of the crawl.                                        *)
(***************************************************************************)

\* C23: the crawl loop terminates for every link structure, pages that link
\* only to URLs already seen and chains of ever new pages included: a URL
\* that is scraped has not been visited before, the number of visited pages
\* is bounded by the page limit whatever the site offers, and the loop is
\* left only with an empty queue or at the page limit.
C23_CrawlLoopTerminates ==
    /\ <>(pc \in {"done", "raised"})
    /\ [][pc' = "scrape" /\ pc # "scrape" => current_url' \notin visited_urls]_vars
    /\ [](Cardinality(visited_urls) <= SafetyCeiling + 1)
    /\ []((pc = "done" /\ primary_success)
             => (urls_to_visit = <<>> \/ LimitReached(visited_urls)))

\* The chain of ever new pages is cut by the page limit with a page queued.
C23_Witness ==
    /\ pc = "done"
    /\ site = SiteChain
    /\ LimitReached(visited_urls)
    /\ urls_to_visit # <<>>

\* C24: a crawl ends only because every entry-URL candidate failed during
\* probing, the queue became empty or the page limit was reached; no
\* failure while fetching a page, selecting its items or extracting them
\* makes scrape_all_products end by raising, so that the records collected
\* so far are returned.
C24_CrawlEndsWithoutRaising ==
    /\ pc # "raised"
    /\ pc = "done" =>
          \/ ~primary_success /\ NoCandidateFetched
          \/ urls_to_visit = <<>>
          \/ LimitReached(visited_urls)

(***************************************************************************)
(* Further properties of _make_request.                                    *)
(***************************************************************************)
IsSleep(e) == e.type = "sleep"
SleepsOf(log) == SelectSeq(log, IsSleep)
BackoffKinds == {"backoff", "backoff403", "backoff429"}
IsBackoff(e) == e.type = "sleep" /\ e.what \in BackoffKinds
AllFailed(gets) == \A k \in 1..Len(gets) : gets[k].res # "200"

\* C26: _make_request sleeps only as retry backoff between attempts: a
\* request that succeeds on its first attempt performs no sleep, one that
\* fails once and then succeeds performs exactly one sleep of retry_delay,
\* and one whose every attempt fails returns None after exactly
\* max_retries - 1 sleeps.
C26_SleepsOnlyAsBackoff ==
    LET gs == GetsOf(mr_log)
        sl == SleepsOf(mr_log)
    IN  Returned =>
           /\ (Len(gs) = 1 /\ gs[1].res = "200") => sl = <<>>
           /\ (Len(gs) = 2 /\ gs[1].res # "200" /\ gs[2].res = "200")
                 => /\ Len(sl) = 1
                    /\ sl[1].n = mr_config.retry_delay
           /\ (Len(gs) = mr_config.max_retries /\ AllFailed(gs))
                 => /\ mr_result = None
                    /\ Len(sl) = mr_config.max_retries - 1

BackoffAfter(cfg, status, a) ==
    CASE status = "403" -> cfg.retry_delay * Pow(3, a)
      [] status = "429" -> 30 + cfg.retry_delay * Pow(2, a)
      [] OTHER -> cfg.retry_delay * Pow(2, a)

\* C30: between a failed non-final attempt a (counted from 0) and the next
\* attempt exactly one backoff sleep is performed, of retry_delay * 3^a
\* after a 403, 30 + retry_delay * 2^a after a 429 and retry_delay * 2^a
\* after any other failure; after the final attempt there is none.
C30_OneBackoffSleepPerFailure ==
    \A k \in 1..Len(mr_log) :
       (IsGet(mr_log[k]) /\ mr_log[k].res # "200") =>
          IF mr_log[k].n < mr_config.max_retries - 1
          THEN /\ Len(mr_log) > k
               /\ IsBackoff(mr_log[k + 1])
               /\ mr_log[k + 1].n = BackoffAfter(mr_config, mr_log[k].res, mr_log[k].n)
               /\ Len(mr_log) > k + 1 => ~IsBackoff(mr_log[k + 2])
          ELSE Len(mr_log) > k => ~IsBackoff(mr_log[k + 1])

\* A step of the run itself, as opposed to the passing of the deadline.
RunStep == deadline_expired' = deadline_expired

NoDuplicates(queue) ==
    \A j, k \in 1..Len(queue) : j # k => queue[j] # queue[k]

\* C28: in the crawl loop the visited set holds every URL dequeued so far
\* (a dequeued URL is added to it and nothing is ever removed), the queue
\* holds no URL twice and no visited URL, so that a dequeued URL is never
\* one that was visited before.
C28_QueueAndVisitedDisjoint ==
    /\ [](NoDuplicates(urls_to_visit))
    /\ [](pc \in LoopPcs => Range(urls_to_visit) \cap visited_urls = {})
    /\ [][visited_urls \subseteq visited_urls']_vars
    /\ [][(RunStep /\ pc = "loop" /\ urls_to_visit # <<>>)
             => /\ current_url' = Head(urls_to_visit)
                /\ urls_to_visit' = Tail(urls_to_visit)
                /\ current_url' \notin visited_urls
                /\ current_url' \in visited_urls'
                /\ pc' = "scrape"]_vars

\* Pages that link to each other and to themselves: two pages visited, one
\* still queued.
C28_Witness ==
    /\ pc = "loop"
    /\ site = SiteFan
    /\ visited_urls = {"A", "C"}
    /\ urls_to_visit = <<"D">>

(***************************************************************************)
(* ProductDataProcessor.process_products (product_data_processor.py, lines *)
(* 120-208) with its BatchProcessor.  A raw product is valid, fails        *)
(* validation ("invalid") or makes the cleaning raise ("raises").  Python  *)
(* values that meet in one list carry a tag: the dictionary a batch        *)
(* returns, or a string.                                                   *)
(***************************************************************************)
RawKinds == {"valid", "invalid", "raises"}

RawLists(n) ==
    {[k \in 1..n |-> [id |-> k, kind |-> kinds[k]]] : kinds \in [1..n -> RawKinds]}

RawInputs == UNION {RawLists(n) : n \in 0..MaxItems}

\* _create_product_object, lines 344-359.
ProductOf(raw_product) == [id |-> raw_product.id]

PyDict(products, failed_count) ==
    [tag |-> "dict", products |-> products, failed_count |-> failed_count,
     str |-> ""]

PyStr(str) == [tag |-> "str", products |-> <<>>, failed_count |-> 0, str |-> str]

\* Lines 182-203: a product that validates is appended; one that fails
\* validation or raises is counted (handle_processing_error always returns
\* True, validators.py lines 475-491, so the loop never breaks).
RECURSIVE ProcessProductLoop(_, _, _)
ProcessProductLoop(raw_products, processed_products, failed_count) ==
    IF raw_products = <<>> THEN PyDict(processed_products, failed_count)
    ELSE IF Head(raw_products).kind = "valid"
         THEN ProcessProductLoop(Tail(raw_products),
                                 Append(processed_products, ProductOf(Head(raw_products))),
                                 failed_count)
         ELSE ProcessProductLoop(Tail(raw_products), processed_products,
                                 failed_count + 1)

\* _process_product_batch, lines 177-208: a dictionary with the keys
\* 'products' and 'failed_count'.
ProcessProductBatch(raw_products) == ProcessProductLoop(raw_products, <<>>, 0)

\* list.extend(value): the elements value yields when iterated are appended;
\* iterating a dictionary yields its keys in insertion order.
ListExtend(results, value) ==
    IF value.tag = "dict"
    THEN results \o <<PyStr("products"), PyStr("failed_count")>>
    ELSE results \o <<value>>

\* process_in_batches (monitoring.py lines 395-405) with processor_func =
\* _process_product_batch.
RECURSIVE ProcessorBatchLoop(_, _, _)
ProcessorBatchLoop(items, start, results) ==
    IF start >= Len(items) THEN results
    ELSE ProcessorBatchLoop(items, start + BatchSize,
                            ListExtend(results, ProcessProductBatch(BatchOf(items, start))))

\* Lines 146-150: batch_result['products'] on every element of
\* processed_batches; subscripting a string with a string is a TypeError.
RECURSIVE FlattenBatches(_, _)
FlattenBatches(processed_batches, processed_products) ==
    IF processed_batches = <<>>
    THEN [outcome |-> "returned", products |-> processed_products]
    ELSE IF Head(processed_batches).tag = "dict"
         THEN FlattenBatches(Tail(processed_batches),
                             processed_products \o Head(processed_batches).products)
         ELSE [outcome |-> "raised", products |-> <<>>]

\* _process_products_internal, lines 137-175.
ProcessProductsInternal(raw_products) ==
    IF Len(raw_products) > BatchSize
    THEN FlattenBatches(ProcessorBatchLoop(raw_products, 0, <<>>), <<>>)
    ELSE [outcome |-> "returned",
          products |-> ProcessProductBatch(raw_products).products]

ProcessorInit ==
    /\ CrawlIdle
    /\ RetryIdle
    /\ RequestIdle
    /\ HeaderIdle
    /\ BatchIdle
    /\ ProxyIdle
    /\ MonitorIdle
    /\ PaginationIdle
    /\ SysmonIdle
    /\ pp_pc = "start"
    /\ pp_raw \in RawInputs
    /\ pp_result = <<>>

\* One call of process_products.
ProcessProducts ==
    /\ pp_pc = "start"
    /\ LET r == ProcessProductsInternal(pp_raw)
       IN  /\ pp_pc' = r.outcome
           /\ pp_result' = r.products
    /\ UNCHANGED pp_raw
    /\ UNCHANGED <<crawl_vars, retry_vars, request_vars, header_vars, batch_vars,
                   proxy_vars, monitor_vars, pagination_vars, sysmon_vars>>

ProcessorNext == ProcessProducts

ProcessorSpec == ProcessorInit /\ [][ProcessorNext]_vars

\* C27: batching is transparent to process_products: n valid raw products
\* give n Product objects in input order, and the result of a list longer
\* than batch_size, which goes through process_in_batches, is the one a
\* single pass over the list gives.
C27_BatchingTransparent ==
    pp_pc # "start" =>
       /\ pp_pc = "returned"
       /\ pp_result = ProcessProductBatch(pp_raw).products
       /\ (\A k \in 1..Len(pp_raw) : pp_raw[k].kind = "valid")
             => pp_result = [k \in 1..Len(pp_raw) |-> ProductOf(pp_raw[k])]

(***************************************************************************)
(* Performance monitoring.  Two scrapers run the crawl loop of             *)
(* scrape_all_products (lines 905-942) in lockstep against the same site   *)
(* and the same responses: mon_on was constructed with a                   *)
(* PerformanceMonitor, mon_off with enable_performance_monitoring=False.   *)
(* mon_book counts what the monitor of mon_on records.  Both scrapers own  *)
(* a BatchProcessor (line 74).                                             *)
(***************************************************************************)
\* RequestTimer.time_request (monitoring.py lines 279-311) around the fetch
\* (scraper lines 516-533): the response of the fetch is handed on, an
\* exception is re-raised, and the request is recorded in either case.
TimeRequest(monitor, book, response) ==
    [response |-> response,
     book |-> IF monitor THEN [book EXCEPT !.request_times = @ + 1] ELSE book]

\* PerformanceMonitor.start_operation, lines 466-471.
StartOperation(monitor, book) ==
    IF monitor THEN [book EXCEPT !.started = @ + 1] ELSE book

\* PerformanceMonitor.end_operation, lines 473-495, which the finally clause
\* of monitor_operation (lines 498-505) calls on return and on an exception.
EndOperation(monitor, book) ==
    IF monitor THEN [book EXCEPT !.operations = @ + 1] ELSE book

\* Variant: the optimization also drops the records collected so far.
OptimizePerformance_DropsRecords(book, products) ==
    [products |-> <<>>, book |-> [book EXCEPT !.optimizations = @ + 1]]

\* PerformanceMonitor.optimize_performance, lines 556-578: a garbage
\* collection and the removal of old entries of the monitor's own data.
OptimizePerformance(book, products) ==
    [products |-> products, book |-> [book EXCEPT !.optimizations = @ + 1]]

\* Lines 918-921.
PeriodicOptimize(monitor, book, products) ==
    IF monitor /\ Len(products) % OptimizeEvery = 0
    THEN OptimizePerformance(book, products)
    ELSE [products |-> products, book |-> book]

\* scrape_all_products leaves through the finally clause of
\* monitor_operation("scrape_all_products"), lines 842-846.
LeaveCrawl(monitor, s, book) ==
    [scraper |-> s,
     book |-> IF s.pc \in {"done", "raised"} THEN EndOperation(monitor, book)
              ELSE book]

\* Lines 905-912.
LoopHeadOf(monitor, s, book) ==
    LeaveCrawl(monitor,
       IF s.urls_to_visit = <<>> THEN [s EXCEPT !.pc = "done"]
       ELSE LET url == Head(s.urls_to_visit)
            IN  IF url \in s.visited_urls
                THEN [s EXCEPT !.urls_to_visit = Tail(@), !.current_url = url]
                ELSE [s EXCEPT !.urls_to_visit = Tail(@), !.current_url = url,
                               !.visited_urls = @ \cup {url}, !.pc = "scrape"],
       book)

\* Lines 915-921 with scrape_page (lines 762-776).
ScrapePageOf(monitor, s, book, fetched) ==
    LET timed == TimeRequest(monitor, StartOperation(monitor, book), fetched)
        ended == EndOperation(monitor, timed.book)
        requested == [s EXCEPT !.requests = Append(@, s.current_url)]
    IN  IF SelectionRaises(timed.response, s.current_url)
        THEN LeaveCrawl(monitor, [requested EXCEPT !.pc = "raised"], ended)
        ELSE LET products == ScrapePageInternal(timed.response,
                                                site.items[s.current_url])
                 optimized == PeriodicOptimize(monitor, ended,
                                               s.all_products \o products)
             IN  [scraper |-> [requested EXCEPT !.all_products = optimized.products,
                                                !.pc = "paginate"],
                  book |-> optimized.book]

\* Lines 923-931.
PaginateOf(monitor, s, book, fetched) ==
    LET timed == TimeRequest(monitor, book, fetched)
        pagination_urls == IF timed.response THEN GetPaginationUrls(s.current_url)
                           ELSE <<>>
    IN  [scraper |-> [s EXCEPT !.requests = Append(@, s.current_url),
                               !.urls_to_visit = Enqueue(@, pagination_urls,
                                                         s.visited_urls),
                               !.pc = "check"],
         book |-> timed.book]

\* Lines 933-942.
SafetyCheckOf(monitor, s, book) ==
    LeaveCrawl(monitor,
               [s EXCEPT !.pc = IF LimitReached(s.visited_urls) THEN "done"
                                ELSE "loop"],
               book)

MonitorInit ==
    /\ pc = "idle"
    /\ site \in Sites
    /\ base_url = "A"
    /\ fallback_urls = <<"B">>
    /\ urls_to_visit = <<>>
    /\ session_established = FALSE
    /\ warmup = None
    /\ request_count = 0
    /\ gradual_urls = <<>>
    /\ i = 1
    /\ primary_success = FALSE
    /\ working_url = None
    /\ visited_urls = {}
    /\ all_products = <<>>
    /\ current_url = None
    /\ fetch_count = [u \in Urls |-> 0]
    /\ probed = <<>>
    /\ last_fetch = None
    /\ page_elements = <<>>
    /\ page_products = <<>>
    /\ root_links = {}
    /\ deadline_expired = FALSE
    /\ RetryIdle
    /\ RequestIdle
    /\ HeaderIdle
    /\ BatchIdle
    /\ ProxyIdle
    /\ ProcessorIdle
    /\ PaginationIdle
    /\ SysmonIdle
    /\ MonitorIdle

monitor_frame == <<crawl_vars, retry_vars, request_vars, header_vars,
                   batch_vars, proxy_vars, processor_vars, pagination_vars,
                   sysmon_vars>>

\* Both scrapers take the step stepOf(monitor, s, book, fetched) on the same
\* response.
BothStep(on, off) ==
    /\ mon_on' = on.scraper
    /\ mon_book' = on.book
    /\ mon_off' = off.scraper
    /\ UNCHANGED monitor_frame

\* scrape_all_products is called on both (lines 835-846) and the loop is
\* entered with the visit list [base_url] (lines 901-903).
MonStart ==
    /\ mon_on.pc = "idle"
    /\ mon_off.pc = "idle"
    /\ BothStep([scraper |-> [mon_on EXCEPT !.pc = "loop",
                                            !.urls_to_visit = <<base_url>>],
                 book |-> StartOperation(TRUE, mon_book)],
                [scraper |-> [mon_off EXCEPT !.pc = "loop",
                                             !.urls_to_visit = <<base_url>>],
                 book |-> StartOperation(FALSE, IdleBook)])

MonLoopHead ==
    /\ mon_on.pc = "loop"
    /\ mon_off.pc = "loop"
    /\ BothStep(LoopHeadOf(TRUE, mon_on, mon_book),
                LoopHeadOf(FALSE, mon_off, IdleBook))

MonScrapePage ==
    /\ mon_on.pc = "scrape"
    /\ mon_off.pc = "scrape"
    /\ \E fetched \in BOOLEAN :
          BothStep(ScrapePageOf(TRUE, mon_on, mon_book, fetched),
                   ScrapePageOf(FALSE, mon_off, IdleBook, fetched))

MonPaginate ==
    /\ mon_on.pc = "paginate"
    /\ mon_off.pc = "paginate"
    /\ \E fetched \in BOOLEAN :
          BothStep(PaginateOf(TRUE, mon_on, mon_book, fetched),
                   PaginateOf(FALSE, mon_off, IdleBook, fetched))

MonSafetyCheck ==
    /\ mon_on.pc = "check"
    /\ mon_off.pc = "check"
    /\ BothStep(SafetyCheckOf(TRUE, mon_on, mon_book),
                SafetyCheckOf(FALSE, mon_off, IdleBook))

MonitorNext ==
    \/ MonStart
    \/ MonLoopHead
    \/ MonScrapePage
    \/ MonPaginate
    \/ MonSafetyCheck

MonitorSpec == MonitorInit /\ [][MonitorNext]_vars

\* C25: performance monitoring is purely observational: on the same
\* responses the scraper with a monitor and the scraper without one are at
\* the same point of the crawl, have issued the same requests in the same
\* order, have visited the same pages, hold the same visit list and have
\* collected the same records in the same order.
C25_MonitoringObservational ==
    /\ mon_on.pc = mon_off.pc
    /\ mon_on.requests = mon_off.requests
    /\ mon_on.visited_urls = mon_off.visited_urls
    /\ mon_on.urls_to_visit = mon_off.urls_to_visit
    /\ mon_on.current_url = mon_off.current_url
    /\ mon_on.all_products = mon_off.all_products

\* Both crawls have ended after several pages with records, and the monitor
\* has timed every request, closed every operation and optimized.
C25_Witness ==
    /\ mon_on.pc = "done"
    /\ mon_off.pc = "done"
    /\ Cardinality(mon_off.visited_urls) >= 2
    /\ Len(mon_off.all_products) >= 2
    /\ mon_book.request_times = Len(mon_on.requests)
    /\ mon_book.request_times >= 4
    /\ mon_book.operations = mon_book.started
    /\ mon_book.optimizations >= 1

\* Seconds slept as backoff in the run of backoff sleeps that starts at
\* position k of the log.
RECURSIVE BackoffRun(_, _)
BackoffRun(log, k) ==
    IF k > Len(log) THEN 0
    ELSE IF IsBackoff(log[k]) THEN log[k].n + BackoffRun(log, k + 1)
         ELSE 0

\* C31: after a 429 answer to an attempt that is followed by another
\* attempt, the time slept as backoff before the next attempt is at least
\* 30 seconds.
C31_RateLimitFloor ==
    \A k \in 1..Len(mr_log) :
       (/\ IsGet(mr_log[k])
        /\ mr_log[k].res = "429"
        /\ mr_log[k].n < mr_config.max_retries - 1)
          => BackoffRun(mr_log, k + 1) >= 30

\* A 429 answer was followed by its backoff and by the answer to the next
\* attempt.
C31_Witness ==
    \E k \in 1..Len(mr_log) :
       /\ IsGet(mr_log[k])
       /\ mr_log[k].res = "429"
       /\ BackoffRun(mr_log, k + 1) >= 30
       /\ \E j \in (k + 1)..Len(mr_log) :
             IsGet(mr_log[j]) /\ mr_log[j].n = mr_log[k].n + 1

\* C32: a run goes through warm-up, probing and crawling in that order: the
\* warm-up visit is made before any probe request, no page is scraped before
\* a probe of an entry candidate has succeeded, the warm-up is followed by
\* probing whatever its outcome (a run never ends without a probe), and the
\* session-established flag is true only if the warm-up visit returned 200.
C32_WarmupProbingCrawling ==
    /\ [](pc = "establish_session"
            => probed = <<>> /\ request_count = 0 /\ visited_urls = {})
    /\ [](probed # <<>> => warmup # None)
    /\ [](visited_urls # {}
            => \E k \in 1..Len(probed) :
                  probed[k].fetched /\ probed[k].url \in Range(Candidates))
    /\ [][(RunStep /\ pc = "establish_session")
            => (pc' = "probe" /\ warmup' # None)]_vars
    /\ [](pc \in {"done", "raised"} => probed # <<>>)
    /\ [](session_established => warmup = "200")

\* The warm-up visit raised, and the run probed, crawled and returned
\* records all the same.
C32_Witness ==
    /\ pc = "done"
    /\ warmup = "exception"
    /\ ~session_established
    /\ primary_success
    /\ Len(probed) >= 3
    /\ all_products # <<>>

\* The records of a page: those of its item elements that extract to a
\* named record, in the order of the elements.
RecordsOf(page_url) ==
    [k \in 1..Len(NamedElements(site.items[page_url])) |->
        [id |-> NamedElements(site.items[page_url])[k].id, has_name |-> TRUE]]

\* C33: pages are visited in first-in-first-out order of discovery starting
\* at the crawl root: the loop starts with the root as the only queue entry,
\* every iteration takes the URL at the front of the queue, and discovered
\* URLs are added at the back.  The returned list is the concatenation, in
\* visit order, of the records of the visited pages: the visit of a page
\* adds the page's records, in the order of its item elements, at the end of
\* the list, and no other step changes the list.
C33_BreadthFirstConcatenation ==
    /\ [][(pc = "after_probe" /\ pc' = "loop")
            => (urls_to_visit = <<base_url>> /\ all_products = <<>>)]_vars
    /\ [][(RunStep /\ pc = "loop" /\ urls_to_visit # <<>>)
            => /\ current_url' = Head(urls_to_visit)
               /\ urls_to_visit' = Tail(urls_to_visit)]_vars
    /\ [][(pc = "scrape" \/ pc = "check")
            => urls_to_visit' = urls_to_visit]_vars
    /\ [][pc = "paginate" => IsPrefix(urls_to_visit, urls_to_visit')]_vars
    /\ [][(pc = "scrape" /\ pc' = "paginate")
            => all_products' = all_products
                   \o (IF last_fetch' = "ok" THEN RecordsOf(current_url)
                       ELSE <<>>)]_vars
    /\ [][pc # "scrape" => (all_products' = all_products)]_vars

\* The root and the two pages found on it were fetched and visited in the
\* order of discovery, and the records of the three pages were returned.
C33_Witness ==
    /\ pc = "done"
    /\ site = SiteFan
    /\ base_url = "A"
    /\ visited_urls = {"A", "C", "D"}
    /\ all_products = RecordsOf("A") \o RecordsOf("C") \o RecordsOf("D")
    /\ Len(all_products) = 6

\* C34: within one escalation the session transport uses the proxy the
\* command-line transport used before it, for any proxy list and any
\* outcome of the liveness tests.
C34_SessionUsesCurlProxy ==
    Len(esc_proxies) = 2 => esc_proxies[2].proxy = esc_proxies[1].proxy

\* C35: when the caller's wall-clock deadline has expired during a crawl,
\* the crawl finishes the page fetch in progress and starts no further page
\* fetch: no URL is taken from the queue to be scraped after the deadline,
\* and the run returns with the records it has.
C35_DeadlineStopsCrawl ==
    /\ [][(deadline_expired /\ pc = "loop") => pc' # "scrape"]_vars
    /\ [][deadline_expired => Len(all_products') >= Len(all_products)]_vars

(***************************************************************************)
(* get_pagination_urls (garage_grown_gear_scraper.py, lines 805-833) on    *)
(* its own: PaginationSpec calls it on pages with up to MaxLinks link      *)
(* elements, for both entry URLs as base_url.                              *)
(***************************************************************************)
Hrefs == {NoHref, EmptyHref, "C", "D"} \cup RelativeHrefs

LinkLists == UNION {[1..n -> Hrefs] : n \in 0..MaxLinks}

PaginationInit ==
    /\ CrawlIdle
    /\ RetryIdle
    /\ RequestIdle
    /\ HeaderIdle
    /\ BatchIdle
    /\ ProxyIdle
    /\ ProcessorIdle
    /\ MonitorIdle
    /\ SysmonIdle
    /\ pg_pc = "call"
    /\ pg_base \in {"A", "B"}
    /\ pg_links \in LinkLists
    /\ pg_raises \in BOOLEAN
    /\ pg_result = <<>>

\* One call of get_pagination_urls.
GetPaginationUrlsCall ==
    /\ pg_pc = "call"
    /\ pg_result' = PaginationUrlsOf(pg_base, pg_links, pg_raises)
    /\ pg_pc' = "returned"
    /\ UNCHANGED <<pg_base, pg_links, pg_raises>>
    /\ UNCHANGED <<crawl_vars, retry_vars, request_vars, header_vars, batch_vars,
                   proxy_vars, processor_vars, monitor_vars, sysmon_vars>>

PaginationNext == GetPaginationUrlsCall

PaginationSpec == PaginationInit /\ [][PaginationNext]_vars

\* The link elements that carry a (non-empty) href.
HasHref(href) == href \notin {NoHref, EmptyHref}

\* Position of the first link element whose href refers to url.
FirstLink(url) ==
    CHOOSE k \in 1..Len(pg_links) :
       /\ HasHref(pg_links[k]) /\ UrlJoin(pg_base, pg_links[k]) = url
       /\ \A j \in 1..(k - 1) :
             ~(HasHref(pg_links[j]) /\ UrlJoin(pg_base, pg_links[j]) = url)

\* C36: get_pagination_urls returns the absolute URLs of the page's
\* pagination links, each distinct URL once, in the order of first
\* occurrence, skipping the links without href (an empty href counts as
\* none); it returns the empty list when the page has no pagination links
\* and when the link selection raises.
C36_PaginationUrls ==
    pg_pc = "returned" =>
       IF pg_raises THEN pg_result = <<>>
       ELSE /\ \A k \in 1..Len(pg_result) : pg_result[k] \in TargetUrls
            /\ Range(pg_result) = {UrlJoin(pg_base, pg_links[k]) :
                                     k \in {j \in 1..Len(pg_links) : HasHref(pg_links[j])}}
            /\ \A j, k \in 1..Len(pg_result) :
                  j < k => /\ pg_result[j] # pg_result[k]
                           /\ FirstLink(pg_result[j]) < FirstLink(pg_result[k])
            /\ pg_links = <<>> => pg_result = <<>>

\* A relative link, a link without href and an absolute link to the page
\* the relative one refers to: the page is returned once, before the page
\* found after it.
C36_Witness ==
    /\ pg_pc = "returned"
    /\ pg_base = "A"
    /\ pg_links = <<"?page=3", NoHref, "D", "?page=2">>
    /\ pg_result = <<"D", "C">>

\* C37: for every page visited in the crawl loop, records and pagination
\* links come from the same fetch outcome: the pagination links of the page
\* are enqueued if and only if the fetch for its records succeeded.
C37_RecordsAndLinksSameFetch ==
    [][(RunStep /\ pc = "paginate")
         => urls_to_visit' =
               IF last_fetch = "ok"
               THEN Enqueue(urls_to_visit, GetPaginationUrls(current_url),
                            visited_urls)
               ELSE urls_to_visit]_vars

\* C39: a run of scrape_all_products leaves the configured entry points as
\* they were: when the run has ended, base_url and fallback_urls are the
\* ones the gradual approach list was built from, so a second run probes
\* the same candidates in the same order.
C39_EntryPointsUnchanged ==
    pc \in {"done", "raised"} =>
       /\ base_url = gradual_urls[3]
       /\ fallback_urls = SubSeq(gradual_urls, 4, Len(gradual_urls))
       /\ <<Homepage, CollectionsUrl, base_url>> \o fallback_urls = gradual_urls

\* C38: whichever transport produced it, _make_request returns a page only
\* if the target answered the request with status 200: the request whose
\* answer is returned as the page, the last one of the call, was answered
\* with 200, by the fetcher or by an alternative transport.
C38_PageOnlyForStatus200 ==
    (Returned /\ mr_result = "page") =>
       /\ mr_log # <<>>
       /\ LET last == mr_log[Len(mr_log)]
          IN  \/ IsGet(last) /\ last.res = "200"
              \/ IsTransport(last) /\ last.n = 200

(***************************************************************************)
(* SystemMonitor (error_handling/monitoring.py, lines 83-130): one thread  *)
(* calls start_monitoring and stop_monitoring, every start that finds the  *)
(* monitor stopped creates a sampling thread that runs _monitor_loop.      *)
(* A sampling thread is at the loop test ("check"), between the test and   *)
(* the append ("sample"), in time.sleep ("sleep") or has left the loop     *)
(* ("dead").  Threads are numbered in the order of their creation.         *)
(***************************************************************************)
MonitorEvent(what, thread) == [what |-> what, thread |-> thread]

SysmonInit ==
    /\ CrawlIdle
    /\ RetryIdle
    /\ RequestIdle
    /\ HeaderIdle
    /\ BatchIdle
    /\ ProxyIdle
    /\ ProcessorIdle
    /\ MonitorIdle
    /\ PaginationIdle
    /\ SysmonIdle

sysmon_frame == <<crawl_vars, retry_vars, request_vars, header_vars, batch_vars,
                  proxy_vars, processor_vars, monitor_vars, pagination_vars>>

ThreadAlive(thread) == thread # 0 /\ sm_threads[thread] # "dead"

\* start_monitoring, lines 92-99.
StartMonitoring ==
    /\ sm_main = "idle"
    /\ Len(sm_events) < MaxMonitorEvents
    /\ IF sm_monitoring
       THEN /\ sm_events' = Append(sm_events, MonitorEvent("start_noop", 0))
            /\ UNCHANGED <<sm_monitoring, sm_samples, sm_threads, sm_thread>>
       ELSE /\ Len(sm_threads) < MaxMonitorThreads
            /\ sm_monitoring' = TRUE
            /\ sm_samples' = <<>>
            /\ sm_threads' = Append(sm_threads, "check")
            /\ sm_thread' = Len(sm_threads) + 1
            /\ sm_events' = Append(sm_events,
                                   MonitorEvent("start", Len(sm_threads) + 1))
    /\ UNCHANGED sm_main
    /\ UNCHANGED sysmon_frame

\* stop_monitoring, lines 103-106: the flag is cleared and the thread, if it
\* is alive, is joined.
StopBegin ==
    /\ sm_main = "idle"
    /\ Len(sm_events) < MaxMonitorEvents
    /\ sm_monitoring' = FALSE
    /\ IF ThreadAlive(sm_thread)
       THEN /\ sm_main' = "joining"
            /\ UNCHANGED sm_events
       ELSE /\ sm_events' = Append(sm_events, MonitorEvent("stop", 0))
            /\ UNCHANGED sm_main
    /\ UNCHANGED <<sm_samples, sm_threads, sm_thread>>
    /\ UNCHANGED sysmon_frame

\* Line 106: join(timeout=1.0) returns when the thread has ended, and after
\* one second whatever the thread does; the thread sleeps for
\* sample_interval (5 seconds by default) between two samples.
JoinReturns(thread) == TRUE

\* stop_monitoring, lines 106-109: the join is over and the call returns.
StopEnd ==
    /\ sm_main = "joining"
    /\ JoinReturns(sm_thread)
    /\ sm_main' = "idle"
    /\ sm_events' = Append(sm_events, MonitorEvent("stop", 0))
    /\ UNCHANGED <<sm_monitoring, sm_samples, sm_threads, sm_thread>>
    /\ UNCHANGED sysmon_frame

\* _monitor_loop, line 113: while self.monitoring.
LoopTest(thread) ==
    /\ sm_threads[thread] = "check"
    /\ sm_threads' = [sm_threads EXCEPT ![thread] =
                         IF sm_monitoring THEN "sample" ELSE "dead"]
    /\ UNCHANGED <<sm_main, sm_monitoring, sm_samples, sm_thread, sm_events>>
    /\ UNCHANGED sysmon_frame

\* _monitor_loop, lines 114-130: the sample is taken and appended, or taking
\* it raises; the thread sleeps in either case.
TakeSample(thread) ==
    /\ sm_threads[thread] = "sample"
    /\ Len(sm_events) < MaxMonitorEvents
    /\ \E taken \in BOOLEAN :
          IF taken
          THEN /\ sm_samples' = Append(sm_samples, thread)
               /\ sm_events' = Append(sm_events, MonitorEvent("sample", thread))
          ELSE UNCHANGED <<sm_samples, sm_events>>
    /\ sm_threads' = [sm_threads EXCEPT ![thread] = "sleep"]
    /\ UNCHANGED <<sm_main, sm_monitoring, sm_thread>>
    /\ UNCHANGED sysmon_frame

\* time.sleep(self.sample_interval) returns.
WakeUp(thread) ==
    /\ sm_threads[thread] = "sleep"
    /\ sm_threads' = [sm_threads EXCEPT ![thread] = "check"]
    /\ UNCHANGED <<sm_main, sm_monitoring, sm_samples, sm_thread, sm_events>>
    /\ UNCHANGED sysmon_frame

SysmonNext ==
    \/ StartMonitoring
    \/ StopBegin
    \/ StopEnd
    \/ \E thread \in 1..Len(sm_threads) : LoopTest(thread)
    \/ \E thread \in 1..Len(sm_threads) : TakeSample(thread)
    \/ \E thread \in 1..Len(sm_threads) : WakeUp(thread)

SysmonSpec == SysmonInit /\ [][SysmonNext]_vars

\* Position of the latest start that created a thread, or stop that
\* returned, before position k of the events; 0 if there is none.
LastCallBefore(k) ==
    LET earlier == {j \in 1..(k - 1) : sm_events[j].what \in {"start", "stop"}}
    IN  IF earlier = {} THEN 0
        ELSE CHOOSE j \in earlier : \A h \in earlier : h <= j

\* C40: for any interleaving of start_monitoring and stop_monitoring with
\* the sampling threads, at most one sampling thread is appending to
\* samples at any time (no two threads are in their sampling loop with the
\* flag set, and the samples collected since the latest start come from one
\* thread), and no sample is appended after stop_monitoring has returned
\* unless start_monitoring has created a new thread since.
C40_OneSamplingThread ==
    /\ Cardinality({t \in 1..Len(sm_threads) :
                      sm_threads[t] = "sample"}) <= 1
    /\ Cardinality(Range(sm_samples)) <= 1
    /\ \A k \in 1..Len(sm_events) :
          sm_events[k].what = "sample"
             => /\ LastCallBefore(k) # 0
                /\ sm_events[LastCallBefore(k)].what = "start"

====
